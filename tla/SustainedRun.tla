----------------------------- MODULE SustainedRun -----------------------------
(***************************************************************************)
(* LoadTestEngine.run_sustained (http_bench/load_test.py): a pacer offers  *)
(* one fire per interval to a bounded asyncio.Queue, a fixed pool of       *)
(* workers takes fires off it and issues requests, and the end of the run  *)
(* is a sequence of bounded waits: queue.join(), one stop sentinel per     *)
(* worker, and _drain, which cancels what is left.                         *)
(*                                                                         *)
(* A step is what one coroutine does between two suspension points, so the *)
(* interleavings are exactly those of one event loop.  Time is abstracted: *)
(* a request takes any time, so a bounded wait may expire at any moment.   *)
(* A queued item is a fire or a sentinel.  Sentinels are put only after    *)
(* the last fire and the queue is FIFO, so its contents are two counts:    *)
(* every queued fire is in front of every queued sentinel.                 *)
(***************************************************************************)
EXTENDS Naturals, FiniteSets

CONSTANTS
  Workers,   \* the pool: `cap` workers
  Backlogs,  \* values of the queue's maxsize, max(1, backlog)
  Slots      \* fires the pacer has before stop_at

ASSUME WorkersAssumption == IsFiniteSet(Workers) /\ Workers # {}
ASSUME BacklogAssumption == Backlogs \subseteq Nat \ {0}
ASSUME SlotsAssumption == Slots \in Nat

VARIABLES
  args,         \* the arguments of the run, and the target it meets
  pc,           \* where the coroutine of run_sustained is
  wstate,       \* what each worker task is doing
  fires,        \* fires in the queue
  sentinels,    \* stop sentinels in the queue
  unfinished,   \* the queue's count of items put and not yet task_done()
  retired,      \* sentinels _retire_workers has put so far
  stop,         \* stop_event
  scheduled, started, dropped,      \* the RunCounters of the run
  completed,    \* results in timed_results
  interrupted, worker_errors,       \* what _drain returned
  timeouts      \* the bounded waits that expired (history, for properties)

queueVars == <<fires, sentinels, unfinished>>
counters == <<scheduled, started, dropped, completed>>
drainVars == <<interrupted, worker_errors>>
vars ==
  <<args, pc, wstate, queueVars, retired, stop, counters, drainVars, timeouts>>

(* graceful: graceful_stop_s > 0.  healthy: no request hangs or raises and *)
(* the deadlines of the shutdown outlast the requests.                     *)
Arguments == [backlog : Backlogs, graceful : BOOLEAN, healthy : BOOLEAN]

Backlog == args.backlog
Graceful == args.graceful

Phases == {"pacing", "joining", "stopping", "retiring", "draining", "done"}
WorkerStates == {"idle", "busy", "returned", "dead", "cancelled"}

(* idle: suspended in queue.get(); busy: suspended in request_single(). *)
In(s) == {w \in Workers : wstate[w] = s}
Idle == In("idle")
Busy == In("busy")
Dead == In("dead")
Live == Idle \cup Busy

qsize == fires + sentinels
cap == Cardinality(Workers)

TypeOK ==
  /\ args \in Arguments
  /\ pc \in Phases
  /\ wstate \in [Workers -> WorkerStates]
  /\ fires \in Nat
  /\ sentinels \in Nat
  /\ unfinished \in Nat
  /\ retired \in 0 .. cap
  /\ stop \in BOOLEAN
  /\ scheduled \in 0 .. Slots
  /\ started \in Nat
  /\ dropped \in Nat
  /\ completed \in Nat
  /\ interrupted \in Nat
  /\ worker_errors \in Nat
  /\ timeouts \subseteq {"join", "retire", "drain"}

Init ==
  /\ args \in Arguments
  /\ pc = "pacing"
  /\ wstate = [w \in Workers |-> "idle"]
  /\ fires = 0 /\ sentinels = 0 /\ unfinished = 0
  /\ retired = 0
  /\ stop = FALSE
  /\ scheduled = 0 /\ started = 0 /\ dropped = 0 /\ completed = 0
  /\ interrupted = 0 /\ worker_errors = 0
  /\ timeouts = {}

-------------------------------------------------------------------------------
(* The workers. *)

(* From queue.get() to the worker's next suspension, after `settled` items *)
(* (0 or 1) were task_done() in the same step.  get() does not suspend on  *)
(* a non-empty queue.                                                      *)
Blocks(w, settled) ==
  /\ qsize = 0
  /\ wstate' = [wstate EXCEPT ![w] = "idle"]
  /\ unfinished' = unfinished - settled
  /\ UNCHANGED <<fires, sentinels, started>>

\* Mutant: the worker does not look at stop_event.
StartsRequestUnchecked(w, settled) ==
  /\ fires > 0
  /\ fires' = fires - 1
  /\ started' = started + 1
  /\ wstate' = [wstate EXCEPT ![w] = "busy"]
  /\ unfinished' = unfinished - settled
  /\ UNCHANGED sentinels

StartsRequest(w, settled) ==
  /\ fires > 0 /\ ~stop
  /\ fires' = fires - 1
  /\ started' = started + 1
  /\ wstate' = [wstate EXCEPT ![w] = "busy"]
  /\ unfinished' = unfinished - settled
  /\ UNCHANGED sentinels

DiscardsFire(w, settled) ==
  /\ fires > 0 /\ stop
  /\ fires' = fires - 1
  /\ wstate' = [wstate EXCEPT ![w] = "returned"]
  /\ unfinished' = unfinished - settled - 1
  /\ UNCHANGED <<sentinels, started>>

TakesSentinel(w, settled) ==
  /\ fires = 0 /\ sentinels > 0
  /\ sentinels' = sentinels - 1
  /\ wstate' = [wstate EXCEPT ![w] = "returned"]
  /\ unfinished' = unfinished - settled - 1
  /\ UNCHANGED <<fires, started>>

NextItem(w, settled) ==
  \/ Blocks(w, settled)
  \/ StartsRequest(w, settled)
  \/ DiscardsFire(w, settled)
  \/ TakesSentinel(w, settled)

(* A put woke this worker's get(). *)
Wake(w) ==
  /\ wstate[w] = "idle"
  /\ qsize > 0
  /\ NextItem(w, 0)
  /\ UNCHANGED <<pc, retired, stop, scheduled, dropped, completed, drainVars,
                 timeouts, args>>

(* The request returns: record the result, task_done(), loop to get(). *)
Complete(w) ==
  /\ wstate[w] = "busy"
  /\ completed' = completed + 1
  /\ NextItem(w, 1)
  /\ UNCHANGED <<pc, retired, stop, scheduled, dropped, drainVars, timeouts, args>>

\* Mutant: task_done() is not in a finally clause.
FailWithoutTaskDone(w) ==
  /\ wstate[w] = "busy" /\ ~args.healthy
  /\ wstate' = [wstate EXCEPT ![w] = "dead"]
  /\ UNCHANGED <<pc, queueVars, retired, stop, counters, drainVars, timeouts, args>>

(* The request raises: the finally clause still calls task_done(). *)
Fail(w) ==
  /\ wstate[w] = "busy" /\ ~args.healthy
  /\ wstate' = [wstate EXCEPT ![w] = "dead"]
  /\ unfinished' = unfinished - 1
  /\ UNCHANGED <<pc, fires, sentinels, retired, stop, counters, drainVars,
                 timeouts, args>>

-------------------------------------------------------------------------------
(* The coroutine of run_sustained. *)

Goto(from, to) == pc = from /\ pc' = to

(* put_nowait: queued, or dropped when the queue is full.  The pacer does  *)
(* not suspend between two fires when it is behind its schedule.           *)
Fire ==
  /\ pc = "pacing" /\ scheduled < Slots
  /\ scheduled' = scheduled + 1
  /\ \/ /\ qsize < Backlog
        /\ fires' = fires + 1
        /\ unfinished' = unfinished + 1
        /\ UNCHANGED dropped
     \/ /\ qsize >= Backlog
        /\ dropped' = dropped + 1
        /\ UNCHANGED <<fires, unfinished>>
  /\ UNCHANGED <<pc, wstate, sentinels, retired, stop, started, completed,
                 drainVars, timeouts, args>>

(* next_fire reached stop_at; with no grace the join is skipped. *)
StopPacing ==
  /\ scheduled = Slots
  /\ Goto("pacing", IF Graceful THEN "joining" ELSE "stopping")
  /\ stop' = ~Graceful
  /\ UNCHANGED <<wstate, queueVars, retired, counters, drainVars, timeouts, args>>

JoinDone ==
  /\ unfinished = 0
  /\ Goto("joining", "stopping")
  /\ stop' = TRUE
  /\ UNCHANGED <<wstate, queueVars, retired, counters, drainVars, timeouts, args>>

(* When a bounded wait may expire.  Ready callbacks run before a timer     *)
(* armed after them: a worker woken by a put is not overtaken by it.       *)
MayExpire == ~args.healthy /\ (Idle = {} \/ qsize = 0)

JoinTimeout ==
  /\ MayExpire
  /\ Goto("joining", "stopping")
  /\ stop' = TRUE
  /\ timeouts' = timeouts \cup {"join"}
  /\ UNCHANGED <<wstate, queueVars, retired, counters, drainVars, args>>

\* Mutant: one sentinel too few.
PutSentinelsShort ==
  LET room == Backlog - qsize
      left == cap - retired
      n == IF left <= room THEN left ELSE room
      m == IF n = left /\ n > 0 THEN n - 1 ELSE n
  IN /\ sentinels' = sentinels + m
     /\ unfinished' = unfinished + m
     /\ retired' = retired + n
     /\ UNCHANGED <<wstate, fires, stop, counters, drainVars, timeouts, args>>

(* _retire_workers puts sentinels without suspending until it has put one  *)
(* per worker or the queue is full.                                        *)
PutSentinels ==
  LET room == Backlog - qsize
      left == cap - retired
      n == IF left <= room THEN left ELSE room
  IN /\ sentinels' = sentinels + n
     /\ unfinished' = unfinished + n
     /\ retired' = retired + n
     /\ UNCHANGED <<wstate, fires, stop, counters, drainVars, timeouts, args>>

BeginRetire == Goto("stopping", "retiring") /\ PutSentinels

ResumeRetire ==
  /\ pc = "retiring" /\ UNCHANGED pc
  /\ retired < cap /\ qsize < Backlog
  /\ PutSentinels

RetireDone ==
  /\ retired = cap
  /\ Goto("retiring", "draining")
  /\ UNCHANGED <<wstate, queueVars, retired, stop, counters, drainVars,
                 timeouts, args>>

(* The timer fires while the putter waits for room.  A completion in the   *)
(* timer's own iteration of the loop is this timeout, then Complete.       *)
RetireTimeout ==
  /\ retired < cap
  /\ qsize = Backlog
  /\ MayExpire
  /\ Goto("retiring", "draining")
  /\ timeouts' = timeouts \cup {"retire"}
  /\ UNCHANGED <<wstate, queueVars, retired, stop, counters, drainVars, args>>

(* _drain: every task still pending counts as interrupted and is cancelled *)
(* (a busy worker's finally calls task_done()); tasks that ended with an   *)
(* exception count as worker errors.                                       *)
CancelPending ==
  /\ interrupted' = Cardinality(Live)
  /\ worker_errors' = Cardinality(Dead)
  /\ wstate' = [w \in Workers |-> IF w \in Live THEN "cancelled" ELSE wstate[w]]
  /\ unfinished' = unfinished - Cardinality(Busy)
  /\ UNCHANGED <<fires, sentinels, retired, stop, counters>>

DrainDone ==
  /\ Live = {}
  /\ Goto("draining", "done")
  /\ CancelPending
  /\ UNCHANGED <<timeouts, args>>

\* Mutant: tasks are gathered with no deadline.
DrainWithoutDeadline ==
  /\ Live = {}
  /\ Goto("draining", "done")
  /\ CancelPending
  /\ UNCHANGED <<timeouts, args>>

DrainTimeout ==
  /\ Live # {}
  /\ MayExpire
  /\ Goto("draining", "done")
  /\ CancelPending
  /\ timeouts' = timeouts \cup {"drain"}
  /\ UNCHANGED args

(* The summary is returned and the tasks are gone. *)
Finished == pc = "done" /\ UNCHANGED vars

-------------------------------------------------------------------------------
WorkerStep(w) == Wake(w) \/ Complete(w) \/ Fail(w)

OnTime ==
  Fire \/ StopPacing \/ JoinDone \/ BeginRetire \/ ResumeRetire \/ RetireDone
    \/ DrainDone

Expiry == JoinTimeout \/ RetireTimeout \/ DrainTimeout

Main == OnTime \/ Expiry

Next == Main \/ (\E w \in Workers : WorkerStep(w)) \/ Finished

(* The loop keeps running ready callbacks and timers fire.  Requests are   *)
(* only assumed to return if the target is healthy.                        *)
Fairness ==
  /\ WF_vars(Main)
  /\ \A w \in Workers : WF_vars(Wake(w)) /\ WF_vars(args.healthy /\ Complete(w))

Spec == Init /\ [][Next]_vars /\ Fairness

-------------------------------------------------------------------------------
(* Properties. *)

(* queue.join() waits for exactly the work that is left: the queued items  *)
(* and the requests being made, also after a worker died (1343-1344).      *)
UnfinishedIsExact == unfinished = qsize + Cardinality(Busy)

(* While the run is on, every slot the pacer counted was started, is still *)
(* queued, or was counted as dropped: none is lost and none counted twice. *)
FiresAreConserved == ~stop => scheduled = dropped + started + fires

(* Every request handed to the engine is answered, killed its worker, or   *)
(* is still being made; so no result is recorded twice or for no request.  *)
RequestsAreConserved ==
  pc # "done" => started = completed + Cardinality(Busy) + Cardinality(Dead)

(* With a backlog no smaller than the pool (the default), the counters of  *)
(* the summary account for every started request: `interrupted` counts     *)
(* requests cut off by the deadline and no idle worker.                    *)
SummaryAccounts ==
  pc = "done" /\ cap <= Backlog
    => started = completed + interrupted + worker_errors

(* If the join completed in time, no scheduled fire is missing from the    *)
(* counters: each one was started or dropped.                              *)
CleanJoinLosesNothing ==
  pc = "done" /\ Graceful /\ "join" \notin timeouts
    => scheduled = started + dropped

(* The books of a run balance in every state: the queue's own count, the   *)
(* fires, the requests and the summary, whatever way a worker ends its     *)
(* item (result, exception, discard, sentinel, cancellation).              *)
CountersBalance ==
  /\ TypeOK
  /\ UnfinishedIsExact
  /\ FiresAreConserved
  /\ RequestsAreConserved
  /\ SummaryAccounts
  /\ CleanJoinLosesNothing

(* After stop_event is set no worker hands a request to the engine.        *)
NoStartAfterStop == [][stop => started' = started]_vars

(* The run returns whatever the target does: a request that never returns  *)
(* cannot hang it, nor can a dead pool with a full queue.                  *)
Terminates == <>(pc = "done")

(* Any backlog, smaller than the pool too: when all requests return, every *)
(* bounded wait of the shutdown ends by itself; awaiting put() of the      *)
(* sentinels cannot deadlock (1396-1397).                                  *)
ShutsDownUnaided == args.healthy => <>(pc = "done" /\ interrupted = 0)

(* The run implements the promise of a load run, with the pool's requests  *)
(* as the requests in flight; no request it started is missing at the end. *)
Run == INSTANCE LoadRun WITH
         accepting <- ~stop,
         answered <- completed,
         crashed <- Cardinality(Dead),
         cut <- interrupted,
         reported <- (pc = "done")

ImplementsLoadRun == Run!Spec

===============================================================================
