-------------------------- MODULE SustainedRunProofs --------------------------
(***************************************************************************)
(* Proofs about SustainedRun, for every pool, every set of backlogs and    *)
(* every number of slots.  All of them rest on one inductive invariant, IInv.              *)
(***************************************************************************)
EXTENDS SustainedRun, FiniteSetTheorems, TLAPS

Count(s) == Cardinality(In(s))

(* Bookkeeping that the properties lean on: the queue is bounded,          *)
(* stop_event follows the phase, sentinels come after the last fire, and   *)
(* nothing is reported before the end.                                     *)
Bookkeeping ==
  /\ qsize <= Backlog
  /\ stop = (pc \notin {"pacing", "joining"})
  /\ pc \in {"pacing", "joining", "stopping"} => sentinels = 0 /\ retired = 0
  /\ pc # "done" => interrupted = 0
  /\ pc = "done" => \A w \in Workers : wstate[w] \notin {"idle", "busy"}

(* With such a backlog every worker still alive when the run drains has an *)
(* item to take, so none is left waiting in get() for the drain deadline.  *)
PendingWorkersHaveItems ==
  pc \in {"retiring", "draining"} /\ cap <= Backlog
    => Cardinality(Live) <= qsize

(* What CleanJoinLosesNothing says, from the moment the join completed.    *)
JoinedClean ==
  pc \notin {"pacing", "joining"} /\ Graceful /\ "join" \notin timeouts
    => fires = 0 /\ scheduled = started + dropped

IInv ==
  /\ TypeOK
  /\ Bookkeeping
  /\ UnfinishedIsExact
  /\ FiresAreConserved
  /\ RequestsAreConserved
  /\ PendingWorkersHaveItems
  /\ JoinedClean
  /\ SummaryAccounts

-------------------------------------------------------------------------------
(* Counting workers. *)

(* The workers in one state are finitely many, and no more than the pool.  *)
LEMMA PoolFacts ==
  ASSUME NEW s
  PROVE  IsFiniteSet(In(s)) /\ Count(s) \in Nat /\ Count(s) <= cap /\ cap \in Nat
<1>1. In(s) \subseteq Workers
  BY DEF In
<1>2. QED
  BY <1>1, WorkersAssumption, FS_Subset, FS_CardinalityType
  DEF Count, cap

(* The live workers are the idle and the busy ones, and none is both.      *)
LEMMA LiveCount ==
  /\ Count("idle") \in Nat /\ Count("busy") \in Nat /\ Count("dead") \in Nat
  /\ Cardinality(Live) = Count("idle") + Count("busy")
  /\ Cardinality(Live) <= cap
<1>1. IsFiniteSet(Idle) /\ IsFiniteSet(Busy)
  BY PoolFacts DEF Idle, Busy
<1>2. Idle \cap Busy = {}
  BY DEF Idle, Busy, In
<1>3. Cardinality(Live) = Cardinality(Idle) + Cardinality(Busy) - 0
  BY <1>1, <1>2, FS_Union, FS_EmptySet DEF Live
<1>4. Live \subseteq Workers
  BY DEF Live, Idle, Busy, In
<1>5. Count("idle") \in Nat /\ Count("busy") \in Nat /\ Count("dead") \in Nat
  BY PoolFacts
<1>6. QED
  BY <1>1, <1>3, <1>4, <1>5, WorkersAssumption, FS_Subset
  DEF Idle, Busy, Count, cap

(* A worker that goes from one state to another is counted there instead.  *)
LEMMA WorkerMoves ==
  ASSUME TypeOK, NEW w \in Workers, NEW to, NEW s,
         wstate' = [wstate EXCEPT ![w] = to]
  PROVE  Count(s)' = Count(s) + (IF to = s THEN 1 ELSE 0)
                              - (IF wstate[w] = s THEN 1 ELSE 0)
<1>1. Count(s) \in Nat /\ IsFiniteSet(In(s))
  BY PoolFacts
<1>2. CASE to = s /\ wstate[w] # s
  <2>1. In(s)' = In(s) \cup {w} /\ w \notin In(s)
    BY <1>2 DEF In, TypeOK
  <2>2. Cardinality(In(s) \cup {w}) = Cardinality(In(s)) + 1
    BY <1>1, <2>1, FS_AddElement
  <2>3. QED
    BY <1>1, <1>2, <2>1, <2>2 DEF Count
<1>3. CASE to # s /\ wstate[w] = s
  <2>1. In(s)' = In(s) \ {w} /\ w \in In(s)
    BY <1>3 DEF In, TypeOK
  <2>2. Cardinality(In(s) \ {w}) = Cardinality(In(s)) - 1
    BY <1>1, <2>1, FS_RemoveElement
  <2>3. QED
    BY <1>1, <1>3, <2>1, <2>2 DEF Count
<1>4. CASE (to = s) <=> (wstate[w] = s)
  <2>1. In(s)' = In(s)
    BY <1>4 DEF In, TypeOK
  <2>2. QED
    BY <1>1, <1>4, <2>1 DEF Count
<1>5. QED
  BY <1>2, <1>3, <1>4

(* The same count in the next state. *)
LEMMA LiveCountNext ==
  (/\ Count("idle") \in Nat /\ Count("busy") \in Nat /\ Count("dead") \in Nat
   /\ Cardinality(Live) = Count("idle") + Count("busy")
   /\ Cardinality(Live) <= cap)'
BY LiveCount, PTL

-------------------------------------------------------------------------------
(* What the arguments of the run are. *)
LEMMA ArgumentFacts ==
  ASSUME args \in Arguments
  PROVE  Backlog \in Nat /\ Backlog > 0 /\ Graceful \in BOOLEAN
<1>1. args.backlog \in Backlogs /\ args.graceful \in BOOLEAN
  BY DEF Arguments
<1>2. args.backlog \in Nat \ {0}
  BY <1>1, BacklogAssumption
<1>3. QED
  BY <1>1, <1>2 DEF Backlog, Graceful

(* What IInv says in terms of counts: the form the arithmetic needs. *)
LEMMA IInvCounts ==
  ASSUME IInv
  PROVE  /\ Count("idle") \in Nat /\ Count("busy") \in Nat /\ Count("dead") \in Nat
         /\ cap \in Nat /\ Backlog \in Nat /\ Backlog > 0 /\ Slots \in Nat
         /\ Graceful \in BOOLEAN
         /\ Cardinality(Live) = Count("idle") + Count("busy")
         /\ Cardinality(Live) <= cap
         /\ Cardinality(Busy) = Count("busy")
         /\ Cardinality(Dead) = Count("dead")
<1>1. TypeOK
  BY DEF IInv
<1>2. Backlog \in Nat /\ Backlog > 0 /\ Graceful \in BOOLEAN
  BY <1>1, ArgumentFacts DEF TypeOK
<1>3. cap \in Nat
  BY PoolFacts
<1>4. /\ Count("idle") \in Nat /\ Count("busy") \in Nat /\ Count("dead") \in Nat
      /\ Cardinality(Live) = Count("idle") + Count("busy")
      /\ Cardinality(Live) <= cap
  BY LiveCount
<1>5. Cardinality(Busy) = Count("busy") /\ Cardinality(Dead) = Count("dead")
  BY DEF Busy, Dead, Count
<1>6. QED
  BY <1>2, <1>3, <1>4, <1>5, SlotsAssumption

(* The same in the next state, where only the definitions matter. *)
LEMMA NextCounts ==
  /\ Count("idle")' \in Nat /\ Count("busy")' \in Nat /\ Count("dead")' \in Nat
  /\ Cardinality(Live)' = Count("idle")' + Count("busy")'
  /\ Cardinality(Busy)' = Count("busy")'
  /\ Cardinality(Dead)' = Count("dead")'
BY LiveCountNext DEF Busy, Dead, Count

(* A step in which one worker moves, and how the counts of the workers     *)
(* that matter change: Is(a, b) is 1 where they agree.                     *)
Is(a, b) == IF a = b THEN 1 ELSE 0

LEMMA CountsOfMove ==
  ASSUME TypeOK, NEW w \in Workers, NEW to,
         wstate' = [wstate EXCEPT ![w] = to]
  PROVE  /\ Count("idle")' = Count("idle") + Is(to, "idle") - Is(wstate[w], "idle")
         /\ Count("busy")' = Count("busy") + Is(to, "busy") - Is(wstate[w], "busy")
         /\ Count("dead")' = Count("dead") + Is(to, "dead") - Is(wstate[w], "dead")
BY WorkerMoves DEF Is

(* A worker takes its next item: it was waiting in get() (k = 0), or its   *)
(* request has just returned (k = 1).                                      *)
LEMMA NextItemPreserves ==
  ASSUME IInv, NEW w \in Workers, NEW k \in {0, 1},
         wstate[w] = (IF k = 1 THEN "busy" ELSE "idle"),
         NextItem(w, k),
         completed' = completed + k,
         UNCHANGED <<pc, retired, stop, scheduled, dropped, drainVars, timeouts, args>>
  PROVE  IInv'
<1>. USE DEF qsize, Backlog, Graceful
<1>1. TypeOK /\ pc # "done" /\ unfinished = fires + sentinels + Count("busy")
             /\ started = completed + Count("busy") + Count("dead")
  BY IInvCounts DEF IInv, Bookkeeping, UnfinishedIsExact, RequestsAreConserved
<1>a. Is(wstate[w], "idle") = 1 - k /\ Is(wstate[w], "busy") = k
        /\ Is(wstate[w], "dead") = 0
  BY DEF Is
<1>2. /\ wstate' \in [Workers -> WorkerStates]
      /\ fires' \in Nat /\ sentinels' \in Nat /\ started' \in Nat
      /\ unfinished' \in Nat
      /\ sentinels' <= sentinels /\ fires' <= fires
      /\ unfinished' = fires' + sentinels' + Count("busy")'
      /\ started' = completed' + Count("busy")' + Count("dead")'
      /\ ~stop => started' + fires' = started + fires
      /\ stop => started' = started
      /\ stop => Count("idle")' + Count("busy")' - qsize'
                   = Count("idle") + Count("busy") - qsize
  <2>1. CASE Blocks(w, k)
    <3>1. wstate' = [wstate EXCEPT ![w] = "idle"]
      BY <2>1 DEF Blocks
    <3>a. /\ Count("idle")' = Count("idle") + Is("idle", "idle") - Is(wstate[w], "idle")
          /\ Count("busy")' = Count("busy") + Is("idle", "busy") - Is(wstate[w], "busy")
          /\ Count("dead")' = Count("dead") + Is("idle", "dead") - Is(wstate[w], "dead")
      BY <1>1, <3>1, CountsOfMove, Zenon
    <3>2. /\ Count("idle")' = Count("idle") + k
          /\ Count("busy")' = Count("busy") - k
          /\ Count("dead")' = Count("dead")
      BY <1>a, <3>a, IInvCounts DEF Is
    <3>3. QED
      BY <1>1, <2>1, <3>1, <3>2, IInvCounts, NextCounts
      DEF Blocks, TypeOK, WorkerStates
  <2>2. CASE StartsRequest(w, k)
    <3>1. wstate' = [wstate EXCEPT ![w] = "busy"]
      BY <2>2 DEF StartsRequest
    <3>a. /\ Count("idle")' = Count("idle") + Is("busy", "idle") - Is(wstate[w], "idle")
          /\ Count("busy")' = Count("busy") + Is("busy", "busy") - Is(wstate[w], "busy")
          /\ Count("dead")' = Count("dead") + Is("busy", "dead") - Is(wstate[w], "dead")
      BY <1>1, <3>1, CountsOfMove, Zenon
    <3>2. /\ Count("idle")' = Count("idle") - 1 + k
          /\ Count("busy")' = Count("busy") + 1 - k
          /\ Count("dead")' = Count("dead")
      BY <1>a, <3>a, IInvCounts DEF Is
    <3>3. QED
      BY <1>1, <2>2, <3>1, <3>2, IInvCounts DEF StartsRequest, TypeOK, WorkerStates
  <2>3. CASE DiscardsFire(w, k) \/ TakesSentinel(w, k)
    <3>1. wstate' = [wstate EXCEPT ![w] = "returned"]
      BY <2>3 DEF DiscardsFire, TakesSentinel
    <3>a. /\ Count("idle")' = Count("idle") + Is("returned", "idle") - Is(wstate[w], "idle")
          /\ Count("busy")' = Count("busy") + Is("returned", "busy") - Is(wstate[w], "busy")
          /\ Count("dead")' = Count("dead") + Is("returned", "dead") - Is(wstate[w], "dead")
      BY <1>1, <3>1, CountsOfMove, Zenon
    <3>2. /\ Count("idle")' = Count("idle") - 1 + k
          /\ Count("busy")' = Count("busy") - k
          /\ Count("dead")' = Count("dead")
      BY <1>a, <3>a, IInvCounts DEF Is
    <3>3. Count("idle")' \in Nat /\ Count("busy")' \in Nat
      BY NextCounts
    <3>4. QED
      BY <1>1, <2>3, <3>1, <3>2, <3>3, IInvCounts
      DEF DiscardsFire, TakesSentinel, TypeOK, WorkerStates
  <2>4. QED
    BY <2>1, <2>2, <2>3 DEF NextItem
<1>b. qsize' \in Nat /\ qsize \in Nat /\ qsize' <= qsize
  <2>1. \/ fires' = fires /\ sentinels' = sentinels
        \/ fires' = fires - 1 /\ sentinels' = sentinels
        \/ fires' = fires /\ sentinels' = sentinels - 1
    BY DEF NextItem, Blocks, StartsRequest, DiscardsFire, TakesSentinel
  <2>2. fires \in Nat /\ sentinels \in Nat /\ fires' \in Nat /\ sentinels' \in Nat
    BY <1>1, <1>2 DEF TypeOK
  <2>3. CASE fires' = fires /\ sentinels' = sentinels
    BY <2>2, <2>3
  <2>4. CASE fires' = fires - 1 /\ sentinels' = sentinels
    BY <2>2, <2>4
  <2>5. CASE fires' = fires /\ sentinels' = sentinels - 1
    BY <2>2, <2>5
  <2>6. QED
    BY <2>1, <2>3, <2>4, <2>5
<1>3. TypeOK'
  BY <1>1, <1>2 DEF TypeOK, drainVars, cap
<1>4. Bookkeeping'
  <2>1. qsize' <= Backlog
    <3>1. qsize <= Backlog /\ Backlog \in Nat /\ Backlog' = Backlog
      BY IInvCounts DEF IInv, Bookkeeping
    <3>. HIDE DEF qsize, Backlog
    <3>2. QED
      BY <1>b, <3>1
  <2>2. stop' = (pc' \notin {"pacing", "joining"})
    BY DEF IInv, Bookkeeping
  <2>3. pc' \in {"pacing", "joining", "stopping"} => sentinels' = 0 /\ retired' = 0
    BY <1>2 DEF IInv, TypeOK, Bookkeeping
  <2>4. QED
    BY <1>1, <2>1, <2>2, <2>3 DEF IInv, Bookkeeping, drainVars
<1>5. UnfinishedIsExact' /\ RequestsAreConserved'
  BY <1>2, NextCounts DEF UnfinishedIsExact, RequestsAreConserved
<1>6. FiresAreConserved'
  BY <1>1, <1>2 DEF IInv, FiresAreConserved, TypeOK
<1>7. PendingWorkersHaveItems'
  <2>1. SUFFICES ASSUME pc \in {"retiring", "draining"}, cap <= Backlog
                 PROVE  Cardinality(Live)' <= qsize'
    BY DEF PendingWorkersHaveItems, cap
  <2>2. stop /\ Cardinality(Live) <= qsize
    BY <2>1 DEF IInv, Bookkeeping, PendingWorkersHaveItems
  <2>3. QED
    BY <1>1, <1>2, <2>2, NextCounts, IInvCounts DEF TypeOK
<1>8. JoinedClean'
  BY <1>1, <1>2 DEF IInv, Bookkeeping, JoinedClean, TypeOK
<1>9. SummaryAccounts'
  BY <1>1 DEF SummaryAccounts
<1>10. QED
  BY <1>3, <1>4, <1>5, <1>6, <1>7, <1>8, <1>9 DEF IInv

(* A request raises: its worker is gone, and its item is task_done(). *)
LEMMA FailPreserves ==
  ASSUME IInv, NEW w \in Workers, Fail(w)
  PROVE  IInv'
<1>. USE DEF qsize, Backlog, Graceful
<1>1. /\ TypeOK /\ pc # "done" /\ unfinished = fires + sentinels + Count("busy")
      /\ started = completed + Count("busy") + Count("dead")
      /\ wstate[w] = "busy" /\ wstate' = [wstate EXCEPT ![w] = "dead"]
      /\ UNCHANGED <<pc, fires, sentinels, retired, stop, scheduled, started,
                     dropped, completed, interrupted, worker_errors, timeouts, args>>
  BY IInvCounts
  DEF IInv, Bookkeeping, UnfinishedIsExact, RequestsAreConserved, Fail, counters,
      drainVars
<1>2. /\ Count("idle")' = Count("idle") + Is("dead", "idle") - Is(wstate[w], "idle")
      /\ Count("busy")' = Count("busy") + Is("dead", "busy") - Is(wstate[w], "busy")
      /\ Count("dead")' = Count("dead") + Is("dead", "dead") - Is(wstate[w], "dead")
  BY <1>1, CountsOfMove, Zenon
<1>3. /\ Count("busy")' = Count("busy") - 1
      /\ Count("dead")' = Count("dead") + 1
      /\ Cardinality(Live)' = Cardinality(Live) - 1
  BY <1>1, <1>2, IInvCounts, NextCounts DEF Is
<1>4. UnfinishedIsExact' /\ RequestsAreConserved'
  <2>1. unfinished' = unfinished - 1 /\ fires \in Nat /\ sentinels \in Nat
          /\ completed \in Nat
    BY <1>1 DEF Fail, TypeOK
  <2>2. UnfinishedIsExact'
    BY <1>1, <1>3, <2>1, NextCounts, IInvCounts DEF UnfinishedIsExact
  <2>3. RequestsAreConserved'
    BY <1>1, <1>3, <2>1, NextCounts, IInvCounts DEF RequestsAreConserved
  <2>4. QED
    BY <2>2, <2>3
<1>5. unfinished' \in Nat
  BY <1>1, <1>4, NextCounts DEF UnfinishedIsExact, TypeOK
<1>6. TypeOK'
  BY <1>1, <1>5 DEF TypeOK, WorkerStates, cap
<1>7. Bookkeeping' /\ FiresAreConserved' /\ JoinedClean' /\ SummaryAccounts'
  BY <1>1 DEF IInv, Bookkeeping, FiresAreConserved, JoinedClean, SummaryAccounts
<1>8. PendingWorkersHaveItems'
  <2>1. SUFFICES ASSUME pc \in {"retiring", "draining"}, cap <= Backlog
                 PROVE  Cardinality(Live)' <= qsize'
    BY <1>1 DEF PendingWorkersHaveItems, cap
  <2>2. Cardinality(Live) <= qsize /\ qsize' = qsize /\ qsize \in Nat
    BY <1>1, <2>1 DEF IInv, PendingWorkersHaveItems, TypeOK
  <2>3. Cardinality(Live) \in Nat
    BY IInvCounts
  <2>. HIDE DEF qsize
  <2>4. QED
    BY <1>3, <2>2, <2>3
<1>9. QED
  BY <1>4, <1>6, <1>7, <1>8 DEF IInv

-------------------------------------------------------------------------------
(* The steps of the coroutine of run_sustained.  Until the drain they      *)
(* leave the workers alone.                                                *)
LEMMA PoolUnchanged ==
  ASSUME UNCHANGED wstate
  PROVE  /\ Live' = Live /\ Busy' = Busy /\ Dead' = Dead
         /\ Count("idle")' = Count("idle") /\ Count("busy")' = Count("busy")
         /\ Count("dead")' = Count("dead")
BY DEF Live, Idle, Busy, Dead, In, Count

LEMMA FirePreserves ==
  ASSUME IInv, Fire
  PROVE  IInv'
<1>. USE DEF qsize, Backlog, Graceful
<1>1. /\ TypeOK /\ qsize <= Backlog /\ unfinished = qsize + Cardinality(Busy)
      /\ scheduled = dropped + started + fires /\ ~stop
      /\ pc = "pacing" /\ scheduled < Slots
  BY DEF IInv, Bookkeeping, UnfinishedIsExact, FiresAreConserved, Fire
<1>2. TypeOK'
  BY <1>1, SlotsAssumption DEF Fire, TypeOK, cap, drainVars
<1>3. Bookkeeping'
  BY <1>1, IInvCounts DEF Fire, IInv, Bookkeeping, TypeOK, drainVars
<1>4. UnfinishedIsExact' /\ RequestsAreConserved'
  BY <1>1, PoolUnchanged, IInvCounts
  DEF Fire, IInv, UnfinishedIsExact, RequestsAreConserved, TypeOK
<1>5. FiresAreConserved'
  BY <1>1 DEF Fire, FiresAreConserved, TypeOK
<1>6. PendingWorkersHaveItems' /\ JoinedClean' /\ SummaryAccounts'
  BY <1>1 DEF Fire, PendingWorkersHaveItems, JoinedClean, SummaryAccounts
<1>7. QED
  BY <1>2, <1>3, <1>4, <1>5, <1>6 DEF IInv

(* The pacer is through; only the phase and stop_event move. *)
LEMMA StopPacingPreserves ==
  ASSUME IInv, StopPacing
  PROVE  IInv'
<1>. USE DEF Backlog, Graceful
<1>1. /\ TypeOK /\ pc = "pacing" /\ ~stop
      /\ pc' = (IF Graceful THEN "joining" ELSE "stopping") /\ stop' = ~Graceful
      /\ UNCHANGED <<wstate, fires, sentinels, unfinished, retired, scheduled, started,
                     dropped, completed, interrupted, worker_errors, timeouts, args>>
  BY DEF IInv, Bookkeeping, StopPacing, Goto, queueVars, counters, drainVars
<1>2. TypeOK'
  BY <1>1, IInvCounts DEF TypeOK, Phases, cap
<1>3. Bookkeeping'
  BY <1>1, IInvCounts DEF IInv, Bookkeeping, qsize
<1>4. UnfinishedIsExact' /\ RequestsAreConserved' /\ FiresAreConserved'
  BY <1>1, PoolUnchanged
  DEF IInv, UnfinishedIsExact, RequestsAreConserved, FiresAreConserved, qsize
<1>5. PendingWorkersHaveItems' /\ JoinedClean' /\ SummaryAccounts'
  BY <1>1 DEF PendingWorkersHaveItems, JoinedClean, SummaryAccounts
<1>6. QED
  BY <1>2, <1>3, <1>4, <1>5 DEF IInv

(* The join ends, in time or not.  In time, unfinished = 0 means that the  *)
(* queue is empty, so every scheduled fire was started or dropped.         *)
LEMMA JoinPreserves ==
  ASSUME IInv, JoinDone \/ JoinTimeout
  PROVE  IInv'
<1>. USE DEF Backlog, Graceful
<1>1. /\ TypeOK /\ pc = "joining" /\ ~stop /\ pc' = "stopping" /\ stop'
      /\ stop' = TRUE /\ timeouts' \in {timeouts, timeouts \cup {"join"}}
      /\ UNCHANGED <<wstate, fires, sentinels, unfinished, retired, scheduled, started,
                     dropped, completed, interrupted, worker_errors, args>>
  BY DEF IInv, Bookkeeping, JoinDone, JoinTimeout, Goto, queueVars, counters, drainVars
<1>2. TypeOK'
  BY <1>1 DEF TypeOK, Phases, cap
<1>3. Bookkeeping'
  BY <1>1 DEF IInv, Bookkeeping, qsize
<1>4. UnfinishedIsExact' /\ RequestsAreConserved' /\ FiresAreConserved'
  BY <1>1, PoolUnchanged
  DEF IInv, UnfinishedIsExact, RequestsAreConserved, FiresAreConserved, qsize
<1>5. JoinedClean'
  <2>1. CASE JoinDone
    <3>1. unfinished = 0 /\ unfinished = fires + sentinels + Count("busy")
      BY <2>1, IInvCounts DEF JoinDone, IInv, UnfinishedIsExact, qsize
    <3>2. fires = 0
      BY <1>1, <3>1, IInvCounts DEF TypeOK
    <3>3. scheduled = dropped + started + fires
      BY <1>1 DEF IInv, FiresAreConserved
    <3>4. QED
      BY <1>1, <3>2, <3>3 DEF JoinedClean, TypeOK
  <2>2. CASE JoinTimeout
    BY <2>2 DEF JoinTimeout, JoinedClean
  <2>3. QED
    BY <2>1, <2>2
<1>6. PendingWorkersHaveItems' /\ SummaryAccounts'
  BY <1>1 DEF PendingWorkersHaveItems, SummaryAccounts
<1>7. QED
  BY <1>2, <1>3, <1>4, <1>5, <1>6 DEF IInv

(* What PutSentinels does to the queue, as arithmetic: n is how many it    *)
(* puts, and either all that are left fit or the queue ends up full.       *)
LEMMA SentinelRoom ==
  ASSUME NEW q \in Nat, NEW b \in Nat, NEW c \in Nat, NEW r \in 0 .. c, q <= b
  PROVE  LET n == IF c - r <= b - q THEN c - r ELSE b - q
         IN  /\ n \in Nat /\ r + n \in 0 .. c /\ q + n <= b
             /\ r + n = c \/ q + n = b
OBVIOUS

(* Sentinels are put, for the first time or after waiting for room.  With  *)
(* a backlog that holds the pool, every live worker has an item after it.  *)
LEMMA RetirePreserves ==
  ASSUME IInv, BeginRetire \/ ResumeRetire
  PROVE  IInv'
<1>. USE DEF Backlog, Graceful
<1>. DEFINE n == IF cap - retired <= Backlog - qsize THEN cap - retired
                 ELSE Backlog - qsize
<1>1. /\ TypeOK /\ pc \in {"stopping", "retiring"} /\ stop /\ pc' = "retiring"
      /\ sentinels' = sentinels + n /\ unfinished' = unfinished + n
      /\ retired' = retired + n
      /\ UNCHANGED <<wstate, fires, stop, scheduled, started,
                     dropped, completed, interrupted, worker_errors, timeouts, args>>
  BY DEF IInv, Bookkeeping, BeginRetire, ResumeRetire, PutSentinels, Goto, counters,
         drainVars
<1>2. /\ fires \in Nat /\ sentinels \in Nat /\ unfinished \in Nat
      /\ qsize \in Nat /\ qsize <= Backlog /\ retired \in 0 .. cap
      /\ Backlog \in Nat /\ cap \in Nat
  BY <1>1, IInvCounts DEF IInv, TypeOK, Bookkeeping, qsize
<1>3. /\ n \in Nat /\ retired + n \in 0 .. cap /\ qsize + n <= Backlog
      /\ retired + n = cap \/ qsize + n = Backlog
  BY <1>2, SentinelRoom
<1>. HIDE DEF n
<1>4. qsize' = qsize + n
  BY <1>1, <1>2, <1>3 DEF qsize
<1>5. TypeOK'
  <2>1. sentinels' \in Nat /\ unfinished' \in Nat /\ retired' \in (0 .. cap)'
    BY <1>1, <1>2, <1>3 DEF cap
  <2>2. QED
    BY <1>1, <2>1 DEF TypeOK, Phases, cap
<1>6. Bookkeeping'
  BY <1>1, <1>3, <1>4 DEF IInv, Bookkeeping
<1>7. UnfinishedIsExact'
  BY <1>1, <1>2, <1>3, <1>4, PoolUnchanged, IInvCounts DEF IInv, UnfinishedIsExact
<1>8. PendingWorkersHaveItems'
  <2>1. SUFFICES ASSUME cap <= Backlog
                 PROVE  Cardinality(Live) <= qsize + n
    BY <1>1, <1>4, PoolUnchanged DEF PendingWorkersHaveItems, cap
  <2>2. Cardinality(Live) \in Nat /\ Cardinality(Live) <= cap
    BY IInvCounts
  <2>3. CASE qsize + n = Backlog
    BY <1>2, <2>1, <2>2, <2>3
  <2>4. CASE retired + n = cap /\ pc = "stopping"
    BY <1>2, <1>3, <2>2, <2>4 DEF IInv, Bookkeeping
  <2>5. CASE pc = "retiring"
    BY <1>2, <1>3, <2>1, <2>2, <2>5 DEF IInv, PendingWorkersHaveItems
  <2>6. QED
    BY <1>1, <1>3, <2>3, <2>4, <2>5
<1>9. /\ RequestsAreConserved' /\ FiresAreConserved' /\ JoinedClean'
      /\ SummaryAccounts'
  BY <1>1, PoolUnchanged
  DEF IInv, RequestsAreConserved, FiresAreConserved, JoinedClean, SummaryAccounts
<1>10. QED
  BY <1>5, <1>6, <1>7, <1>8, <1>9 DEF IInv

(* The sentinels are all in, or the retire deadline expired. *)
LEMMA RetiredPreserves ==
  ASSUME IInv, RetireDone \/ RetireTimeout
  PROVE  IInv'
<1>. USE DEF Backlog, Graceful
<1>1. /\ TypeOK /\ pc = "retiring" /\ stop /\ pc' = "draining"
      /\ timeouts' \in {timeouts, timeouts \cup {"retire"}}
      /\ UNCHANGED <<wstate, fires, sentinels, unfinished, retired, stop, scheduled,
                     started, dropped, completed, interrupted, worker_errors, args>>
  BY DEF IInv, Bookkeeping, RetireDone, RetireTimeout, Goto, queueVars, counters,
         drainVars
<1>2. TypeOK'
  BY <1>1 DEF TypeOK, Phases, cap
<1>3. Bookkeeping' /\ JoinedClean'
  BY <1>1 DEF IInv, Bookkeeping, JoinedClean, qsize
<1>4. UnfinishedIsExact' /\ RequestsAreConserved' /\ FiresAreConserved'
  BY <1>1, PoolUnchanged
  DEF IInv, UnfinishedIsExact, RequestsAreConserved, FiresAreConserved, qsize
<1>5. PendingWorkersHaveItems' /\ SummaryAccounts'
  BY <1>1, PoolUnchanged DEF IInv, PendingWorkersHaveItems, SummaryAccounts, qsize, cap
<1>6. QED
  BY <1>2, <1>3, <1>4, <1>5 DEF IInv

(* The drain: it waited for every worker, or its deadline expired.  With a *)
(* backlog that holds the pool no idle worker is then left: one that was   *)
(* would have an item, and a worker with an item runs before the timer.    *)
LEMMA DrainPreserves ==
  ASSUME IInv, DrainDone \/ DrainTimeout
  PROVE  IInv'
<1>. USE DEF Backlog, Graceful
<1>1. /\ TypeOK /\ pc = "draining" /\ stop /\ pc' = "done" /\ stop' = stop
      /\ timeouts' \in {timeouts, timeouts \cup {"drain"}}
      /\ interrupted' = Cardinality(Live) /\ worker_errors' = Cardinality(Dead)
      /\ wstate' = [w \in Workers |->
                      IF w \in Live THEN "cancelled" ELSE wstate[w]]
      /\ unfinished' = unfinished - Cardinality(Busy)
      /\ UNCHANGED <<fires, sentinels, retired, scheduled, started, dropped, completed,
                     args>>
      /\ Live = {} \/ MayExpire
  BY DEF IInv, Bookkeeping, DrainDone, DrainTimeout, CancelPending, Goto, counters
<1>2. \A w \in Workers : wstate'[w] \notin {"idle", "busy"}
  BY <1>1 DEF Live, Idle, Busy, In
<1>3. Busy' = {} /\ Count("busy")' = 0 /\ Cardinality(Busy)' = 0
  BY <1>2, FS_EmptySet DEF Busy, In, Count
<1>4. unfinished' = qsize /\ qsize \in Nat /\ qsize' = qsize
  BY <1>1, IInvCounts DEF IInv, UnfinishedIsExact, TypeOK, qsize
<1>5. TypeOK'
  <2>1. wstate' \in [Workers -> WorkerStates]
    BY <1>1 DEF TypeOK, WorkerStates
  <2>2. interrupted' \in Nat /\ worker_errors' \in Nat
    BY <1>1, IInvCounts
  <2>3. QED
    BY <1>1, <1>4, <2>1, <2>2 DEF TypeOK, Phases, cap
<1>6. Bookkeeping' /\ JoinedClean'
  BY <1>1, <1>2, <1>4 DEF IInv, Bookkeeping, JoinedClean
<1>7. UnfinishedIsExact'
  BY <1>3, <1>4 DEF UnfinishedIsExact
<1>8. RequestsAreConserved' /\ FiresAreConserved' /\ PendingWorkersHaveItems'
  BY <1>1 DEF RequestsAreConserved, FiresAreConserved, PendingWorkersHaveItems
<1>9. SummaryAccounts'
  <2>1. SUFFICES ASSUME cap <= Backlog
                 PROVE  started = completed + Cardinality(Live) + Cardinality(Dead)
    BY <1>1 DEF SummaryAccounts, cap
  <2>2. Count("idle") = 0
    <3>1. CASE Idle = {}
      BY <3>1, FS_EmptySet DEF Idle, Count
    <3>2. CASE qsize = 0
      BY <1>1, <2>1, <3>2, IInvCounts DEF IInv, PendingWorkersHaveItems
    <3>3. CASE Live = {}
      BY <3>3, FS_EmptySet DEF Live, Idle, Count
    <3>4. QED
      BY <1>1, <3>1, <3>2, <3>3 DEF MayExpire
  <2>3. started = completed + Count("busy") + Count("dead")
    BY <1>1, IInvCounts DEF IInv, RequestsAreConserved
  <2>4. QED
    BY <2>2, <2>3, IInvCounts
<1>10. QED
  BY <1>5, <1>6, <1>7, <1>8, <1>9 DEF IInv

-------------------------------------------------------------------------------
(* The invariant. *)

LEMMA InitEstablishes == Init => IInv
<1>. SUFFICES ASSUME Init
              PROVE  IInv
  OBVIOUS
<1>1. Busy = {} /\ Dead = {} /\ Cardinality({}) = 0
  BY FS_EmptySet DEF Init, Busy, Dead, In
<1>2. TypeOK
  <2>1. cap \in Nat
    BY WorkersAssumption, FS_CardinalityType DEF cap
  <2>2. retired \in 0 .. cap /\ scheduled \in 0 .. Slots
    BY <2>1, SlotsAssumption DEF Init
  <2>3. wstate \in [Workers -> WorkerStates]
    BY DEF Init, WorkerStates
  <2>4. QED
    BY <2>2, <2>3 DEF Init, TypeOK, Phases
<1>3. Bookkeeping
  <2>1. qsize = 0
    BY DEF Init, qsize
  <2>2. qsize <= Backlog
    BY <2>1, ArgumentFacts DEF Init
  <2>3. stop = (pc \notin {"pacing", "joining"})
    BY DEF Init
  <2>4. QED
    BY <2>2, <2>3 DEF Init, Bookkeeping
<1>4. UnfinishedIsExact /\ RequestsAreConserved /\ FiresAreConserved
  BY <1>1 DEF Init, UnfinishedIsExact, RequestsAreConserved, FiresAreConserved, qsize
<1>5. PendingWorkersHaveItems /\ JoinedClean /\ SummaryAccounts
  BY DEF Init, PendingWorkersHaveItems, JoinedClean, SummaryAccounts
<1>6. QED
  BY <1>2, <1>3, <1>4, <1>5 DEF IInv

LEMMA StutterPreserves ==
  ASSUME IInv, UNCHANGED vars
  PROVE  IInv'
<1>1. UNCHANGED <<pc, wstate, fires, sentinels, unfinished, retired, stop, scheduled,
                  started, dropped, completed, interrupted, worker_errors, timeouts, args>>
  BY DEF vars, queueVars, counters, drainVars
<1>2. UNCHANGED <<Live, Busy, Dead, qsize, cap, Backlog, Graceful>>
  BY <1>1 DEF Live, Idle, Busy, Dead, In, qsize, cap, Backlog, Graceful
<1>3. QED
  BY <1>1, <1>2
  DEF IInv, TypeOK, Bookkeeping, UnfinishedIsExact, RequestsAreConserved,
      FiresAreConserved, PendingWorkersHaveItems, JoinedClean, SummaryAccounts

LEMMA WorkerPreserves ==
  ASSUME IInv, NEW w \in Workers, WorkerStep(w)
  PROVE  IInv'
<1>1. CASE Wake(w)
  <2>1. completed' = completed + 0
    BY <1>1 DEF Wake, IInv, TypeOK
  <2>2. QED
    BY <1>1, <2>1, NextItemPreserves DEF Wake
<1>2. CASE Complete(w)
  BY <1>2, NextItemPreserves DEF Complete
<1>3. QED
  BY <1>1, <1>2, FailPreserves DEF WorkerStep

LEMMA NextPreserves == IInv /\ [Next]_vars => IInv'
<1>. SUFFICES ASSUME IInv, [Next]_vars
              PROVE  IInv'
  OBVIOUS
<1>1. CASE Fire
  BY <1>1, FirePreserves
<1>2. CASE StopPacing
  BY <1>2, StopPacingPreserves
<1>3. CASE JoinDone \/ JoinTimeout
  BY <1>3, JoinPreserves
<1>4. CASE BeginRetire \/ ResumeRetire
  BY <1>4, RetirePreserves
<1>5. CASE RetireDone \/ RetireTimeout
  BY <1>5, RetiredPreserves
<1>6. CASE DrainDone \/ DrainTimeout
  BY <1>6, DrainPreserves
<1>7. CASE \E w \in Workers : WorkerStep(w)
  BY <1>7, WorkerPreserves
<1>8. CASE UNCHANGED vars
  BY <1>8, StutterPreserves
<1>9. QED
  BY <1>1, <1>2, <1>3, <1>4, <1>5, <1>6, <1>7, <1>8
  DEF Next, Main, OnTime, Expiry, Finished

(* The invariant behind every theorem below, with no hypothesis on the     *)
(* sizes of the pool, the backlog or the run.                              *)
THEOREM Invariance == Spec => []IInv
<1>1. QED
  BY InitEstablishes, NextPreserves, PTL DEF Spec

(* The type invariant: in particular the queue's counter of unfinished     *)
(* items never goes below zero, which asyncio would raise on.              *)
THEOREM TypeCorrect == Spec => []TypeOK
<1>1. IInv => TypeOK
  BY DEF IInv
<1>2. QED
  BY <1>1, Invariance, PTL

(* Throughout a run the join waits for exactly the work that is left, and  *)
(* neither a fire nor a request is lost or counted twice.                  *)
THEOREM Conservation ==
  Spec => [](UnfinishedIsExact /\ FiresAreConserved /\ RequestsAreConserved)
<1>1. IInv => UnfinishedIsExact /\ FiresAreConserved /\ RequestsAreConserved
  BY DEF IInv
<1>2. QED
  BY <1>1, Invariance, PTL

(* The summary of a run whose backlog holds the pool accounts for every    *)
(* request it started; `interrupted` counts no idle worker.                *)
THEOREM SummaryCorrect == Spec => []SummaryAccounts
<1>1. IInv => SummaryAccounts
  BY DEF IInv
<1>2. QED
  BY <1>1, Invariance, PTL

(* A run whose join completed in time reports every scheduled fire as      *)
(* started or dropped.                                                     *)
THEOREM CleanJoin == Spec => []CleanJoinLosesNothing
<1>1. IInv => CleanJoinLosesNothing
  BY DEF IInv, JoinedClean, CleanJoinLosesNothing, TypeOK
<1>2. QED
  BY <1>1, Invariance, PTL

(* All of the above together: the books of a run balance in every state.  *)
THEOREM BooksBalance == Spec => []CountersBalance
<1>1. IInv => CountersBalance
  BY DEF IInv, JoinedClean, CleanJoinLosesNothing, CountersBalance, TypeOK
<1>2. QED
  BY <1>1, Invariance, PTL

(* No request is handed to the engine once stop_event is set.              *)
THEOREM StoppedRunsStartNothing == Spec => NoStartAfterStop
<1>1. ASSUME [Next]_vars, stop
      PROVE  started' = started
  <2>1. CASE Main
    BY <2>1
    DEF Main, OnTime, Expiry, Fire, StopPacing, JoinDone, BeginRetire, ResumeRetire,
        RetireDone, DrainDone, JoinTimeout, RetireTimeout, DrainTimeout,
        PutSentinels, CancelPending, counters
  <2>2. ASSUME NEW w \in Workers, WorkerStep(w)
        PROVE  started' = started
    BY <1>1, <2>2
    DEF WorkerStep, Wake, Complete, Fail, NextItem, Blocks, StartsRequest,
        DiscardsFire, TakesSentinel, counters
  <2>3. CASE UNCHANGED vars
    BY <2>3 DEF vars, counters
  <2>4. QED
    BY <1>1, <2>1, <2>2, <2>3 DEF Next, Finished
<1>2. QED
  BY <1>1, PTL DEF Spec, NoStartAfterStop

-------------------------------------------------------------------------------
(* The run implements LoadRun. *)

(* While workers are running, LoadRun's requests in flight are the busy    *)
(* workers.                                                                *)
LEMMA InFlightIsBusy ==
  ASSUME IInv, pc # "done"
  PROVE  Run!inFlight = Count("busy")
BY IInvCounts DEF IInv, Bookkeeping, RequestsAreConserved, TypeOK, Run!inFlight

(* A busy worker is counted. *)
LEMMA BusyIsInFlight ==
  ASSUME IInv, NEW w \in Workers, wstate[w] = "busy"
  PROVE  pc # "done" /\ Run!inFlight > 0
<1>1. pc # "done"
  BY DEF IInv, Bookkeeping
<1>2. w \in Busy /\ IsFiniteSet(Busy)
  BY PoolFacts DEF Busy, In
<1>3. Cardinality(Busy) # 0
  BY <1>2, FS_EmptySet
<1>4. QED
  BY <1>1, <1>3, InFlightIsBusy, IInvCounts

LEMMA WorkerImplements ==
  ASSUME IInv, NEW w \in Workers, WorkerStep(w)
  PROVE  [Run!Next]_(Run!vars)
<1>1. TypeOK /\ pc' = pc /\ stop' = stop /\ interrupted' = interrupted
  BY DEF IInv, WorkerStep, Wake, Complete, Fail, drainVars
<1>2. ASSUME NEW k \in {0, 1}, NextItem(w, k), wstate[w] # "dead"
      PROVE  /\ Cardinality(Dead)' = Cardinality(Dead)
             /\ started' = started \/ (~stop /\ started' = started + 1)
  <2>1. PICK to \in {"idle", "busy", "returned"} :
          wstate' = [wstate EXCEPT ![w] = to]
    BY <1>2 DEF NextItem, Blocks, StartsRequest, DiscardsFire, TakesSentinel
  <2>2. Dead' = Dead
    BY <1>1, <1>2, <2>1 DEF Dead, In, TypeOK
  <2>3. QED
    BY <1>2, <2>2
    DEF NextItem, Blocks, StartsRequest, DiscardsFire, TakesSentinel
<1>3. CASE Wake(w)
  <2>1. wstate[w] = "idle" /\ NextItem(w, 0) /\ completed' = completed
    BY <1>3 DEF Wake
  <2>2. /\ Cardinality(Dead)' = Cardinality(Dead)
        /\ started' = started \/ (~stop /\ started' = started + 1)
    BY <1>2, <2>1
  <2>3. QED
    BY <1>1, <2>1, <2>2 DEF Run!Next, Run!Start, Run!vars
<1>4. CASE Complete(w)
  <2>1. wstate[w] = "busy" /\ NextItem(w, 1) /\ completed' = completed + 1
    BY <1>4 DEF Complete
  <2>2. /\ Cardinality(Dead)' = Cardinality(Dead)
        /\ started' = started \/ (~stop /\ started' = started + 1)
    BY <1>2, <2>1
  <2>3. QED
    BY <1>1, <2>1, <2>2, BusyIsInFlight DEF Run!Next, Run!Answer
<1>5. CASE Fail(w)
  <2>1. /\ wstate[w] = "busy" /\ wstate' = [wstate EXCEPT ![w] = "dead"]
        /\ UNCHANGED <<completed, started>>
    BY <1>5 DEF Fail, counters
  <2>2. Count("dead")' = Count("dead") + Is("dead", "dead") - Is("busy", "dead")
    BY <1>1, <2>1, CountsOfMove, Zenon
  <2>3. Cardinality(Dead)' = Cardinality(Dead) + 1
    BY <2>2, IInvCounts, NextCounts DEF Is
  <2>4. QED
    BY <1>1, <2>1, <2>3, BusyIsInFlight DEF Run!Next, Run!Crash
<1>6. QED
  BY <1>3, <1>4, <1>5 DEF WorkerStep

LEMMA MainImplements ==
  ASSUME IInv, Main
  PROVE  [Run!Next]_(Run!vars)
<1>1. CASE Fire \/ BeginRetire \/ ResumeRetire \/ RetireDone \/ RetireTimeout
  <2>1. /\ UNCHANGED <<wstate, stop, started, completed, interrupted>>
        /\ (pc' = "done") = (pc = "done")
    BY <1>1
    DEF Fire, BeginRetire, ResumeRetire, RetireDone, RetireTimeout, PutSentinels, Goto,
        counters, drainVars
  <2>2. QED
    BY <2>1, PoolUnchanged DEF Run!vars
<1>2. CASE StopPacing \/ JoinDone \/ JoinTimeout
  <2>1. /\ UNCHANGED <<wstate, started, completed, interrupted>> /\ ~stop
        /\ pc # "done" /\ pc' # "done"
        /\ stop' \in BOOLEAN
    BY <1>2
    DEF StopPacing, JoinDone, JoinTimeout, Goto, counters, drainVars, IInv, Bookkeeping,
        TypeOK
  <2>2. QED
    BY <2>1, PoolUnchanged DEF Run!vars, Run!Next, Run!Close
<1>3. CASE DrainDone \/ DrainTimeout
  <2>1. /\ pc = "draining" /\ stop /\ pc' = "done" /\ stop' = stop
        /\ UNCHANGED <<started, completed>>
        /\ wstate' = [w \in Workers |->
                        IF w \in Live THEN "cancelled" ELSE wstate[w]]
        /\ interrupted' = Cardinality(Live)
    BY <1>3
    DEF DrainDone, DrainTimeout, CancelPending, Goto, counters, IInv, Bookkeeping
  <2>2. Dead' = Dead
    BY <2>1 DEF Dead, Live, Idle, Busy, In
  <2>3. interrupted' \in Nat /\ interrupted' >= Run!inFlight
    BY <2>1, InFlightIsBusy, IInvCounts
  <2>4. QED
    BY <2>1, <2>2, <2>3 DEF Run!Next, Run!Report
<1>4. QED
  BY <1>1, <1>2, <1>3 DEF Main, OnTime, Expiry

(* For every pool and every backlog, a sustained run implements the        *)
(* promise of a load run.                                                  *)
THEOREM Implementation == Spec => ImplementsLoadRun
<1>1. Init => Run!Init
  <2>1. Init => Dead = {}
    BY DEF Init, Dead, In
  <2>2. QED
    BY <2>1, FS_EmptySet DEF Init, Run!Init
<1>2. IInv /\ [Next]_vars => [Run!Next]_(Run!vars)
  <2>1. SUFFICES ASSUME IInv, [Next]_vars
                 PROVE  [Run!Next]_(Run!vars)
    OBVIOUS
  <2>2. CASE Main
    BY <2>1, <2>2, MainImplements
  <2>3. CASE \E w \in Workers : WorkerStep(w)
    BY <2>1, <2>3, WorkerImplements
  <2>4. CASE UNCHANGED vars
    BY <2>4, PoolUnchanged DEF vars, counters, drainVars, Run!vars
  <2>5. QED
    BY <2>1, <2>2, <2>3, <2>4 DEF Next, Finished
<1>3. QED
  BY <1>1, <1>2, Invariance, PTL DEF Spec, ImplementsLoadRun, Run!Spec

===============================================================================
