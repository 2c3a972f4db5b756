-------------------------------- MODULE SlotRun --------------------------------
(***************************************************************************)
(* The saturation modes of LoadTestEngine (http_bench/load_test.py):       *)
(* run_throughput, which creates every slot at once, and run_ramp_up,      *)
(* which creates them in steps.  A slot issues requests back to back until *)
(* it finds stop_event set; in a ramp it first asks _throttle, which may   *)
(* make it sleep.  Both modes end by setting stop_event and draining.      *)
(*                                                                         *)
(* A step is what one coroutine does between two suspension points.  Time  *)
(* is abstracted: a sleep or a request takes any time.                     *)
(***************************************************************************)
EXTENDS Naturals, FiniteSets

CONSTANTS
  Slots,             \* the slots a run may create, max_concurrency of them
  StartConcurrency,  \* of a ramp
  StepCounts,        \* values of max(1, ramp_duration_s // step_interval_s)
  MaxRequests        \* bound: when that many started, the next return after the end

MaxConcurrency == Cardinality(Slots)

ASSUME SlotsAssumption == IsFiniteSet(Slots) /\ Slots # {}
ASSUME RampAssumption ==
  StartConcurrency \in 1 .. MaxConcurrency /\ StepCounts \subseteq Nat \ {0}
ASSUME BoundAssumption == MaxRequests \in Nat

VARIABLES
  args,         \* the mode and arguments of the run
  pc,           \* where the coroutine of the run is
  step,         \* steps of the ramp that were taken
  wstate,       \* what each slot's task is doing
  stop,         \* stop_event
  started,      \* the counter of the same name
  completed,    \* results in timed_results
  interrupted, worker_errors   \* what _drain returned

drainVars == <<interrupted, worker_errors>>
vars == <<args, pc, step, wstate, stop, started, completed, drainVars>>

(* graceful: graceful_stop_s > 0.  hold: hold_duration_s > 0.  throttled:  *)
(* the throughput ceiling of the ramp is low enough to bite.  epoch:       *)
(* start_at is given, and with it a deadline at which the ramp ends.       *)
Arguments ==
  {a \in [mode : {"throughput", "ramp"}, steps : StepCounts, graceful : BOOLEAN,
          hold : BOOLEAN, throttled : BOOLEAN, epoch : BOOLEAN] :
     a.mode = "throughput" => ~a.throttled /\ ~a.hold /\ ~a.epoch}

NumSteps == args.steps

(* none: not created; new: created and not run yet; waiting: sleeping in   *)
(* _throttle; busy: in request_single().                                   *)
Pending == {"new", "waiting", "busy"}
SlotStates == Pending \cup {"none", "returned", "dead", "cancelled"}

(* The slots of pool p whose task is in one state, or pending. *)
At(p, s) == {w \in Slots : p[w] = s}
Live(p) == {w \in Slots : p[w] \in Pending}
Busy == At(wstate, "busy")
Dead == At(wstate, "dead")

TypeOK ==
  /\ args \in Arguments
  /\ pc \in {"ramping", "holding", "draining", "done"}
  /\ step \in 0 .. NumSteps
  /\ wstate \in [Slots -> SlotStates]
  /\ stop \in BOOLEAN
  /\ started \in Nat
  /\ completed \in Nat
  /\ interrupted \in Nat
  /\ worker_errors \in Nat

(* A throughput run has all its slots from the start, and holds them.      *)
Init ==
  /\ args \in Arguments
  /\ \/ /\ args.mode = "throughput" /\ pc = "holding" /\ step = NumSteps
        /\ wstate = [w \in Slots |-> "new"]
     \/ /\ args.mode = "ramp" /\ pc = "ramping" /\ step = 0
        /\ wstate = [w \in Slots |-> "none"]
  /\ stop = FALSE
  /\ started = 0 /\ completed = 0
  /\ interrupted = 0 /\ worker_errors = 0

-------------------------------------------------------------------------------
(* The slots. *)

\* Mutant: the slot does not look at stop_event before its next request.
StartsUnchecked(w) ==
  /\ wstate' = [wstate EXCEPT ![w] = "busy"]
  /\ started' = started + 1

Starts(w) ==
  /\ ~stop
  /\ wstate' = [wstate EXCEPT ![w] = "busy"]
  /\ started' = started + 1

Throttles(w) ==
  /\ ~stop /\ args.throttled
  /\ wstate' = [wstate EXCEPT ![w] = "waiting"]
  /\ UNCHANGED started

Returns(w) ==
  /\ stop
  /\ wstate' = [wstate EXCEPT ![w] = "returned"]
  /\ UNCHANGED started

(* The head of the slot's loop. *)
LoopTop(w) == Starts(w) \/ Throttles(w) \/ Returns(w)

FirstStep(w) ==
  /\ wstate[w] = "new"
  /\ LoopTop(w)
  /\ UNCHANGED <<args, pc, step, stop, completed, drainVars>>

(* The sleep in _throttle ends; stop_event is not looked at again.         *)
Released(w) ==
  /\ wstate[w] = "waiting"
  /\ wstate' = [wstate EXCEPT ![w] = "busy"]
  /\ started' = started + 1
  /\ UNCHANGED <<args, pc, step, stop, completed, drainVars>>

(* The request returns.  MaxRequests bounds how many do before the end.    *)
Complete(w) ==
  /\ wstate[w] = "busy"
  /\ stop \/ started < MaxRequests
  /\ completed' = completed + 1
  /\ LoopTop(w)
  /\ UNCHANGED <<args, pc, step, stop, drainVars>>

Fail(w) ==
  /\ wstate[w] = "busy"
  /\ wstate' = [wstate EXCEPT ![w] = "dead"]
  /\ UNCHANGED <<args, pc, step, stop, started, completed, drainVars>>

SlotStep(w) == FirstStep(w) \/ Released(w) \/ Complete(w) \/ Fail(w)

-------------------------------------------------------------------------------
(* The end of the run, of a pool p. *)

\* Mutant: the slots that died are not in the count of errors.
CancelUncounted(p) ==
  /\ pc' = "done"
  /\ interrupted' = Cardinality(Live(p))
  /\ worker_errors' = 0
  /\ wstate' = [w \in Slots |-> IF w \in Live(p) THEN "cancelled" ELSE p[w]]

(* _drain from the cancellation of the tasks still pending: they count as  *)
(* interrupted, the tasks that ended with an exception as worker errors.   *)
Cancel(p) ==
  /\ pc' = "done"
  /\ interrupted' = Cardinality(Live(p))
  /\ worker_errors' = Cardinality(At(p, "dead"))
  /\ wstate' = [w \in Slots |-> IF w \in Live(p) THEN "cancelled" ELSE p[w]]

(* stop_event is set and _drain called; it only suspends if there are      *)
(* tasks to wait for and a grace period to wait.                           *)
Stop(p) ==
  /\ stop' = TRUE
  /\ UNCHANGED <<args, started, completed>>
  /\ \/ /\ args.graceful /\ Live(p) # {}
        /\ pc' = "draining" /\ wstate' = p
        /\ UNCHANGED drainVars
     \/ /\ ~args.graceful \/ Live(p) = {}
        /\ Cancel(p)

(* A task that was created runs before a timer that was armed after it.    *)
EachHasRun == At(wstate, "new") = {}

DrainDone ==
  /\ pc = "draining" /\ Live(wstate) = {}
  /\ Cancel(wstate)
  /\ UNCHANGED <<args, step, stop, started, completed>>

\* Mutant: the tasks are gathered with no deadline.
DrainNoDeadline ==
  /\ pc = "draining" /\ Live(wstate) = {}
  /\ Cancel(wstate)
  /\ UNCHANGED <<args, step, stop, started, completed>>

DrainTimeout ==
  /\ pc = "draining" /\ Live(wstate) # {} /\ EachHasRun
  /\ Cancel(wstate)
  /\ UNCHANGED <<args, step, stop, started, completed>>

Drain == DrainDone \/ DrainTimeout

Finished == pc = "done" /\ UNCHANGED vars

-------------------------------------------------------------------------------
(* The coroutine of the run. *)

(* Python's round(a / b): to nearest, ties to even. *)
Round(a, b) ==
  LET low == a \div b
      twice == 2 * (a % b)
  IN  IF twice > b \/ (twice = b /\ low % 2 = 1) THEN low + 1 ELSE low

\* Mutant: the fraction is step / num_steps.
LevelShort(s) ==
  IF NumSteps = 1 THEN MaxConcurrency
  ELSE StartConcurrency + Round((MaxConcurrency - StartConcurrency) * s, NumSteps)

(* target_concurrency_at_step *)
Level(s) ==
  IF NumSteps = 1 THEN MaxConcurrency
  ELSE StartConcurrency
         + Round((MaxConcurrency - StartConcurrency) * s, NumSteps - 1)

Created == {w \in Slots : wstate[w] # "none"}

(* The pools with n slots created, or the same pool if it has as many.     *)
GrownTo(n) ==
  {[w \in Slots |-> IF w \in new THEN "new" ELSE wstate[w]] :
     new \in {s \in SUBSET At(wstate, "none") :
                Cardinality(Created \cup s)
                  = IF Cardinality(Created) < n THEN n ELSE Cardinality(Created)}}

(* A step of the ramp, and the sleep after it. *)
Climb ==
  /\ pc = "ramping" /\ step < NumSteps - 1 /\ EachHasRun
  /\ wstate' \in GrownTo(Level(step))
  /\ step' = step + 1
  /\ UNCHANGED <<args, pc, stop, started, completed, drainVars>>

(* The deadline has passed already when the step would go to sleep. *)
ClimbTooLate ==
  /\ pc = "ramping" /\ step < NumSteps - 1 /\ EachHasRun
  /\ args.epoch
  /\ \E p \in GrownTo(Level(step)) : Stop(p)
  /\ step' = step + 1

(* The deadline ended the sleep after a step. *)
RunOut ==
  /\ pc = "ramping" /\ step > 0 /\ EachHasRun
  /\ args.epoch
  /\ Stop(wstate)
  /\ UNCHANGED step

(* The last step, and what is missing to max_concurrency, then the hold.   *)
Reach ==
  /\ pc = "ramping" /\ step = NumSteps - 1 /\ EachHasRun
  /\ args.hold
  /\ wstate' \in GrownTo(MaxConcurrency)
  /\ pc' = "holding" /\ step' = step + 1
  /\ UNCHANGED <<args, stop, started, completed, drainVars>>

(* The last step of a ramp that is not held, or whose deadline has passed: *)
(* the run is stopped in the same step.                                    *)
ReachAndStop ==
  /\ pc = "ramping" /\ step = NumSteps - 1 /\ EachHasRun
  /\ ~args.hold \/ args.epoch
  /\ \E p \in GrownTo(MaxConcurrency) : Stop(p)
  /\ step' = step + 1

(* The hold of a ramp, or the duration of a throughput run, is over.  Even *)
(* a sleep of 0 suspends once, so every slot has run.                      *)
HoldOver ==
  /\ pc = "holding" /\ EachHasRun
  /\ Stop(wstate)
  /\ UNCHANGED step

Driver == Climb \/ ClimbTooLate \/ RunOut \/ Reach \/ ReachAndStop \/ HoldOver

Next == Driver \/ Drain \/ (\E w \in Slots : SlotStep(w)) \/ Finished

(* The loop runs ready tasks and timers fire; requests may never return.   *)
Fairness ==
  /\ WF_vars(Driver) /\ WF_vars(Drain)
  /\ \A w \in Slots : WF_vars(FirstStep(w) \/ Released(w))

Spec == Init /\ [][Next]_vars /\ Fairness

-------------------------------------------------------------------------------
(* Properties. *)

(* Every request a slot started was answered, killed the slot, or is being *)
(* made: a result is recorded exactly once.                                *)
RequestsAreConserved ==
  pc # "done" => started = completed + Cardinality(Busy) + Cardinality(Dead)

(* The runs in which every slot has run when it is cancelled and none      *)
(* sleeps in _throttle.                                                    *)
RunsOut ==
  /\ ~args.throttled
  /\ args.mode = "throughput" \/ args.graceful \/ (args.hold /\ ~args.epoch)

(* In those runs the counters of the summary account for every request,    *)
(* also if slots died or requests hung: one left in flight is one          *)
(* interrupted (102-107).                                                  *)
SummaryAccounts ==
  RunsOut /\ pc = "done" => started = completed + interrupted + worker_errors

(* The books of a run balance in every state, however its slots end.       *)
ResultsBalance == TypeOK /\ RequestsAreConserved /\ SummaryAccounts

(* Concurrency is on the planned line at every step of the ramp: the       *)
(* levels never fall (the loop could not follow) and the last one is       *)
(* max_concurrency, so nothing is left to top up before the hold.          *)
OnPlan ==
  /\ pc = "ramping" /\ step > 0 => Cardinality(Created) = Level(step - 1)
  /\ pc = "holding" => Cardinality(Created) = Level(NumSteps - 1)

(* The run returns whatever its requests do. *)
Terminates == <>(pc = "done")

(* The run implements the promise of a load run, in every mode and with    *)
(* any arguments: a throttled slot may still start a request after         *)
(* stop_event is set, and the summary hides no request.                    *)
Run == INSTANCE LoadRun WITH
         accepting <- ~stop \/ At(wstate, "waiting") # {},
         answered <- completed,
         crashed <- Cardinality(Dead),
         cut <- interrupted,
         reported <- (pc = "done")

ImplementsLoadRun == Run!Spec

===============================================================================
