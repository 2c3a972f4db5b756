---------------------------- MODULE SlotRunProofs ----------------------------
(***************************************************************************)
(* Proofs about SlotRun, for every number of slots and steps, in both      *)
(* modes and with any arguments.                                           *)
(***************************************************************************)
EXTENDS SlotRun, FiniteSetTheorems, TLAPS

Count(p, s) == Cardinality(At(p, s))
Is(a, b) == IF a = b THEN 1 ELSE 0
Pools == [Slots -> SlotStates]

(* Requests and results balance; interrupted is only set at the end.       *)
Balanced(p) == started = completed + Count(p, "busy") + Count(p, "dead")

(* The slots in one state are finitely many. *)
LEMMA CountFacts ==
  ASSUME NEW p, NEW s
  PROVE  IsFiniteSet(At(p, s)) /\ Count(p, s) \in Nat
<1>1. At(p, s) \subseteq Slots
  BY DEF At
<1>2. QED
  BY <1>1, SlotsAssumption, FS_Subset, FS_CardinalityType DEF Count

(* A slot that goes from one state to another is counted there instead.    *)
LEMMA SlotMoves ==
  ASSUME NEW p \in Pools, NEW w \in Slots, NEW to, NEW s
  PROVE  Count([p EXCEPT ![w] = to], s) = Count(p, s) + Is(to, s) - Is(p[w], s)
<1>. DEFINE q == [p EXCEPT ![w] = to]
<1>0. Count(p, s) \in Nat /\ IsFiniteSet(At(p, s))
  BY CountFacts
<1>1. CASE to = s /\ p[w] # s
  <2>1. At(q, s) = At(p, s) \cup {w} /\ w \notin At(p, s)
    BY <1>1 DEF At, Pools
  <2>2. Cardinality(At(p, s) \cup {w}) = Cardinality(At(p, s)) + 1
    BY <1>0, <2>1, FS_AddElement
  <2>3. Is(to, s) = 1 /\ Is(p[w], s) = 0
    BY <1>1 DEF Is
  <2>4. Count(q, s) = Count(p, s) + 1
    BY <2>1, <2>2 DEF Count
  <2>5. QED
    BY <1>0, <2>3, <2>4
<1>2. CASE to # s /\ p[w] = s
  <2>1. At(q, s) = At(p, s) \ {w} /\ w \in At(p, s)
    BY <1>2 DEF At, Pools
  <2>2. Cardinality(At(p, s) \ {w}) = Cardinality(At(p, s)) - 1
    BY <1>0, <2>1, FS_RemoveElement
  <2>3. Is(to, s) = 0 /\ Is(p[w], s) = 1
    BY <1>2 DEF Is
  <2>4. Count(q, s) = Count(p, s) - 1
    BY <2>1, <2>2 DEF Count
  <2>5. QED
    BY <1>0, <2>3, <2>4
<1>3. CASE (to = s) <=> (p[w] = s)
  <2>1. At(q, s) = At(p, s)
    BY <1>3 DEF At, Pools
  <2>2. QED
    BY <1>0, <1>3, <2>1 DEF Count, Is
<1>4. QED
  BY <1>1, <1>2, <1>3

(* How a step of slot w moves it: to state `to`. *)
MovesTo(w, to) ==
  /\ wstate' = [wstate EXCEPT ![w] = to]
  /\ wstate[w] \in Pending
  /\ started' = started + Is(to, "busy")
  /\ completed' = completed + Is(wstate[w], "busy") - Is(to, "dead")
  /\ to = "dead" => wstate[w] = "busy"
  /\ to = "busy" => ~stop \/ wstate[w] = "waiting"
  /\ to = "waiting" => args.throttled /\ ~stop
  /\ UNCHANGED <<args, pc, step, stop, interrupted, worker_errors>>

LEMMA SlotStepMoves ==
  ASSUME TypeOK, NEW w \in Slots, SlotStep(w)
  PROVE  \E to \in {"busy", "waiting", "returned", "dead"} : MovesTo(w, to)
<1>. USE DEF Is, drainVars, TypeOK, MovesTo, Pending
<1>1. ASSUME LoopTop(w), wstate[w] \in {"new", "busy"},
             completed' = completed + Is(wstate[w], "busy"),
             UNCHANGED <<args, pc, step, stop, interrupted, worker_errors>>
      PROVE  \E to \in {"busy", "waiting", "returned", "dead"} : MovesTo(w, to)
  <2>1. CASE Starts(w)
    <3>1. MovesTo(w, "busy")
      BY <1>1, <2>1 DEF Starts
    <3>2. QED
      BY <3>1
  <2>2. CASE Throttles(w)
    <3>1. MovesTo(w, "waiting")
      BY <1>1, <2>2 DEF Throttles
    <3>2. QED
      BY <3>1
  <2>3. CASE Returns(w)
    <3>1. MovesTo(w, "returned")
      BY <1>1, <2>3 DEF Returns
    <3>2. QED
      BY <3>1
  <2>4. QED
    BY <1>1, <2>1, <2>2, <2>3 DEF LoopTop
<1>2. CASE FirstStep(w)
  <2>1. /\ LoopTop(w) /\ wstate[w] \in {"new", "busy"}
        /\ completed' = completed + Is(wstate[w], "busy")
        /\ UNCHANGED <<args, pc, step, stop, interrupted, worker_errors>>
    BY <1>2 DEF FirstStep
  <2>2. QED
    BY <1>1, <2>1, Zenon
<1>3. CASE Released(w)
  <2>1. MovesTo(w, "busy")
    BY <1>3 DEF Released
  <2>2. QED
    BY <2>1
<1>4. CASE Complete(w)
  <2>1. /\ LoopTop(w) /\ wstate[w] \in {"new", "busy"}
        /\ completed' = completed + Is(wstate[w], "busy")
        /\ UNCHANGED <<args, pc, step, stop, interrupted, worker_errors>>
    BY <1>4 DEF Complete
  <2>2. QED
    BY <1>1, <2>1, Zenon
<1>5. CASE Fail(w)
  <2>1. MovesTo(w, "dead")
    BY <1>5 DEF Fail
  <2>2. QED
    BY <2>1
<1>6. QED
  BY <1>2, <1>3, <1>4, <1>5 DEF SlotStep

(* The counts after such a step. *)
LEMMA CountsOfMove ==
  ASSUME TypeOK, NEW w \in Slots, NEW to \in SlotStates, MovesTo(w, to)
  PROVE  /\ Count(wstate', "busy")
              = Count(wstate, "busy") + Is(to, "busy") - Is(wstate[w], "busy")
         /\ Count(wstate', "dead") = Count(wstate, "dead") + Is(to, "dead")
<1>1. wstate \in Pools /\ wstate' = [wstate EXCEPT ![w] = to]
  BY DEF TypeOK, Pools, MovesTo
<1>2. /\ Count(wstate', "busy")
           = Count(wstate, "busy") + Is(to, "busy") - Is(wstate[w], "busy")
      /\ Count(wstate', "dead")
           = Count(wstate, "dead") + Is(to, "dead") - Is(wstate[w], "dead")
  BY <1>1, SlotMoves
<1>3. Is(wstate[w], "dead") = 0 /\ Is(to, "dead") \in {0, 1}
  BY DEF Is, MovesTo, Pending
<1>4. QED
  BY <1>2, <1>3, CountFacts

LEMMA SlotStepPreserves ==
  ASSUME TypeOK, Balanced(wstate), NEW w \in Slots, SlotStep(w)
  PROVE  /\ TypeOK' /\ Balanced(wstate)'
         /\ UNCHANGED <<args, pc, step, stop, interrupted, worker_errors>>
<1>1. PICK to \in {"busy", "waiting", "returned", "dead"} : MovesTo(w, to)
  BY SlotStepMoves
<1>2. to \in SlotStates
  BY DEF SlotStates, Pending
<1>. DEFINE b == Count(wstate, "busy")
            d == Count(wstate, "dead")
<1>3. Count(wstate', "busy") = b + Is(to, "busy") - Is(wstate[w], "busy")
        /\ Count(wstate', "dead") = d + Is(to, "dead")
  BY <1>1, <1>2, CountsOfMove
<1>4. b \in Nat /\ d \in Nat
  BY CountFacts
<1>5. /\ started' = started + Is(to, "busy")
      /\ completed' = completed + Is(wstate[w], "busy") - Is(to, "dead")
      /\ UNCHANGED <<args, pc, step, stop, interrupted, worker_errors>>
      /\ wstate' \in [Slots -> SlotStates]
  BY <1>1, <1>2 DEF MovesTo, TypeOK
<1>6. /\ Is(to, "busy") \in Nat /\ Is(wstate[w], "busy") \in Nat
      /\ Is(to, "dead") = 0 \/ (Is(to, "dead") = 1 /\ Is(wstate[w], "busy") = 1)
  BY <1>1 DEF Is, MovesTo
<1>7. started' \in Nat /\ completed' \in Nat
  <2>1. started \in Nat /\ completed \in Nat
    BY DEF TypeOK
  <2>2. CASE Is(to, "dead") = 0
    BY <1>5, <1>6, <2>1, <2>2
  <2>3. CASE Is(to, "dead") = 1 /\ Is(wstate[w], "busy") = 1
    BY <1>5, <1>6, <2>1, <2>3
  <2>4. QED
    BY <1>6, <2>2, <2>3
<1>8. TypeOK'
  BY <1>5, <1>7 DEF TypeOK, NumSteps
<1>9. Balanced(wstate)'
  <2>. DEFINE x == Is(to, "busy")
              y == Is(wstate[w], "busy")
              z == Is(to, "dead")
  <2>1. started = completed + b + d /\ started \in Nat /\ completed \in Nat
    BY DEF Balanced, TypeOK
  <2>2. SUFFICES started' = completed' + Count(wstate', "busy")
                                       + Count(wstate', "dead")
    BY DEF Balanced, Count, At
  <2>3. x \in Nat /\ y \in Nat /\ z \in Nat
    BY DEF Is
  <2>. HIDE DEF x, y, z, b, d
  <2>4. started + x = (completed + y - z) + (b + x - y) + (d + z)
    BY <1>4, <2>1, <2>3
  <2>5. QED
    BY <1>3, <1>5, <2>4 DEF x, y, z
<1>10. QED
  BY <1>5, <1>8, <1>9

-------------------------------------------------------------------------------
(* The end of a run. *)

(* What _drain reports of a pool whose only pending slots are busy.        *)
LEMMA CancelAccounts ==
  ASSUME TypeOK, NEW p \in Pools, Cancel(p), UNCHANGED <<started, completed>>
  PROVE  /\ pc' = "done" /\ wstate' \in Pools
         /\ interrupted' \in Nat /\ worker_errors' \in Nat
         /\ Count(wstate', "dead") = Count(p, "dead")
         /\ Live(wstate') = {}
         /\ interrupted' >= Count(p, "busy")
         /\ Balanced(p) /\ Live(p) = At(p, "busy")
              => started' = completed' + interrupted' + worker_errors'
<1>1. /\ pc' = "done" /\ interrupted' = Cardinality(Live(p))
      /\ worker_errors' = Count(p, "dead")
      /\ wstate' = [w \in Slots |-> IF w \in Live(p) THEN "cancelled" ELSE p[w]]
  BY DEF Cancel, Count
<1>2. wstate' \in Pools
  BY <1>1 DEF Pools, SlotStates
<1>3. At(wstate', "dead") = At(p, "dead")
  BY <1>1 DEF At, Live, Pending
<1>a. Live(wstate') = {}
  BY <1>1 DEF Live, Pending
<1>4. Cardinality(Live(p)) \in Nat /\ Cardinality(Live(p)) >= Count(p, "busy")
  <2>1. Live(p) \subseteq Slots /\ At(p, "busy") \subseteq Live(p)
    BY DEF Live, At, Pending
  <2>2. IsFiniteSet(Live(p))
    BY <2>1, SlotsAssumption, FS_Subset
  <2>3. Cardinality(Live(p)) \in Nat
    BY <2>2, FS_CardinalityType
  <2>4. Cardinality(At(p, "busy")) <= Cardinality(Live(p))
    BY <2>1, <2>2, FS_Subset
  <2>5. QED
    BY <2>3, <2>4, CountFacts DEF Count
<1>5. QED
  BY <1>1, <1>2, <1>3, <1>a, <1>4, CountFacts DEF Count, Balanced

-------------------------------------------------------------------------------
(* The refinement: a slot's step is a step of LoadRun. *)
Accepting == ~stop \/ At(wstate, "waiting") # {}

(* The run only goes back on accepting requests by issuing one. *)
LEMMA AcceptingOfMove ==
  ASSUME TypeOK, NEW w \in Slots, NEW to \in SlotStates, MovesTo(w, to)
  PROVE  /\ to = "busy" => Accepting
         /\ wstate[w] = "busy" => Accepting' = Accepting
         /\ Accepting' => Accepting
<1>1. /\ wstate' = [wstate EXCEPT ![w] = to] /\ wstate \in [Slots -> SlotStates]
      /\ stop' = stop /\ stop \in BOOLEAN
      /\ to = "waiting" => ~stop
      /\ to = "busy" => ~stop \/ wstate[w] = "waiting"
  BY DEF MovesTo, TypeOK
<1>2. to = "busy" => Accepting
  BY <1>1 DEF Accepting, At
<1>3. to # "waiting" => At(wstate, "waiting")' \subseteq At(wstate, "waiting")
  BY <1>1 DEF At
<1>4. to # "waiting" /\ wstate[w] = "busy"
        => At(wstate, "waiting")' = At(wstate, "waiting")
  BY <1>1 DEF At
<1>5. CASE to = "waiting"
  BY <1>1, <1>2, <1>5 DEF Accepting
<1>6. CASE to # "waiting"
  BY <1>1, <1>2, <1>3, <1>4, <1>6 DEF Accepting
<1>7. QED
  BY <1>5, <1>6

LEMMA SlotStepImplements ==
  ASSUME TypeOK, Balanced(wstate), interrupted = 0, pc # "done",
         NEW w \in Slots, SlotStep(w)
  PROVE  [Run!Next]_(Run!vars)
<1>. DEFINE b == Count(wstate, "busy")
            d == Count(wstate, "dead")
<1>1. PICK to \in {"busy", "waiting", "returned", "dead"} : MovesTo(w, to)
  BY SlotStepMoves
<1>2. to \in SlotStates
  BY DEF SlotStates, Pending
<1>3. Count(wstate', "busy") = b + Is(to, "busy") - Is(wstate[w], "busy")
        /\ Count(wstate', "dead") = d + Is(to, "dead")
  BY <1>1, <1>2, CountsOfMove
<1>4. /\ b \in Nat /\ d \in Nat /\ d = Cardinality(Dead)
      /\ Cardinality(Dead)' = Count(wstate', "dead")
      /\ started = completed + b + d /\ started \in Nat /\ completed \in Nat
  BY CountFacts DEF Count, Dead, At, Balanced, TypeOK
<1>5. Run!inFlight = b
  BY <1>4 DEF Run!inFlight
<1>6. wstate[w] = "busy" => b > 0
  <2>1. wstate[w] = "busy" => w \in At(wstate, "busy")
    BY DEF At
  <2>2. wstate[w] = "busy" => b # 0
    BY <2>1, CountFacts, FS_EmptySet DEF Count
  <2>3. QED
    BY <1>4, <2>2
<1>7. pc' = pc /\ interrupted' = interrupted
  BY <1>1 DEF MovesTo
<1>a. /\ to = "busy" => Accepting
      /\ wstate[w] = "busy" => Accepting' = Accepting
      /\ Accepting' => Accepting
      /\ Accepting \in BOOLEAN /\ Accepting' \in BOOLEAN
  BY <1>1, <1>2, AcceptingOfMove DEF Accepting
<1>b. /\ Accepting = (~stop \/ At(wstate, "waiting") # {})
      /\ Accepting' = (~stop' \/ At(wstate, "waiting")' # {})
  BY DEF Accepting
<1>. HIDE DEF Accepting
<1>8. CASE to = "dead"
  <2>1. /\ wstate[w] = "busy" /\ UNCHANGED <<started, completed>>
        /\ Cardinality(Dead)' = Cardinality(Dead) + 1
    BY <1>1, <1>3, <1>4, <1>8 DEF MovesTo, Is
  <2>2. Run!Crash
    BY <1>5, <1>6, <1>7, <1>a, <1>b, <2>1 DEF Run!Crash
  <2>3. QED
    BY <2>2 DEF Run!Next
<1>9. CASE to # "dead" /\ wstate[w] = "busy"
  <2>1. /\ completed' = completed + 1
        /\ Cardinality(Dead)' = Cardinality(Dead)
        /\ started' = started \/ (Accepting /\ started' = started + 1)
    BY <1>1, <1>3, <1>4, <1>9, <1>a DEF MovesTo, Is
  <2>2. Run!Answer
    BY <1>5, <1>6, <1>7, <1>9, <1>a, <1>b, <2>1 DEF Run!Answer
  <2>3. QED
    BY <2>2 DEF Run!Next
<1>10. CASE to # "dead" /\ wstate[w] # "busy"
  <2>1. /\ completed' = completed
        /\ Cardinality(Dead)' = Cardinality(Dead)
        /\ started' = started \/ (Accepting /\ started' = started + 1)
    BY <1>1, <1>3, <1>4, <1>10, <1>a DEF MovesTo, Is
  <2>2. CASE started' = started
    <3>1. CASE Accepting' = Accepting
      BY <1>7, <1>b, <2>1, <2>2, <3>1 DEF Run!vars
    <3>2. CASE Accepting' # Accepting
      <4>1. Run!Close
        BY <1>7, <1>a, <1>b, <2>1, <2>2, <3>2 DEF Run!Close
      <4>2. QED
        BY <4>1 DEF Run!Next
    <3>3. QED
      BY <3>1, <3>2
  <2>3. CASE Accepting /\ started' = started + 1
    <3>1. Run!Start
      BY <1>7, <1>a, <1>b, <2>1, <2>3 DEF Run!Start
    <3>2. QED
      BY <3>1 DEF Run!Next
  <2>4. QED
    BY <2>1, <2>2, <2>3
<1>11. QED
  BY <1>8, <1>9, <1>10

(* The slots of p are cancelled: LoadRun reports. *)
LEMMA CancelImplements ==
  ASSUME TypeOK, pc # "done", interrupted = 0,
         NEW p \in Pools, Cancel(p), Count(p, "dead") = Count(wstate, "dead"),
         Balanced(p), stop' = TRUE, UNCHANGED <<started, completed>>
  PROVE  [Run!Next]_(Run!vars)
<1>1. Cardinality(Dead) = Count(wstate, "dead")
        /\ Cardinality(Dead)' = Count(wstate', "dead")
  BY DEF Dead, Count, At
<1>2. /\ started \in Nat /\ completed \in Nat /\ Count(p, "dead") \in Nat
      /\ Count(p, "busy") \in Nat
  BY CountFacts DEF TypeOK
<1>3. /\ pc' = "done" /\ Count(wstate', "dead") = Count(p, "dead")
      /\ Live(wstate') = {} /\ interrupted' \in Nat
      /\ interrupted' >= Count(p, "busy")
  BY CancelAccounts
<1>4. Run!inFlight = Count(p, "busy")
  BY <1>1, <1>2 DEF Run!inFlight, Balanced
<1>5. (~stop' \/ At(wstate, "waiting")' # {}) = FALSE
  BY <1>3 DEF Live, At, Pending
<1>6. Run!Report
  BY <1>1, <1>3, <1>4, <1>5 DEF Run!Report
<1>7. QED
  BY <1>6 DEF Run!Next

(* The end of the run: LoadRun stops accepting, or reports at once. *)
LEMMA StopImplements ==
  ASSUME TypeOK, ~stop, pc # "done", interrupted = 0,
         NEW p \in Pools, Stop(p), Count(p, "dead") = Count(wstate, "dead"),
         Balanced(p)
  PROVE  [Run!Next]_(Run!vars)
<1>1. Cardinality(Dead) = Count(wstate, "dead")
        /\ Cardinality(Dead)' = Count(wstate', "dead")
  BY DEF Dead, Count, At
<1>2. CASE args.graceful /\ Live(p) # {}
  <2>1. /\ UNCHANGED <<started, completed, interrupted>>
        /\ pc' = "draining" /\ wstate' = p
    BY <1>2 DEF Stop, drainVars
  <2>2. CASE Accepting'
    BY <1>1, <2>1, <2>2 DEF Run!vars, Accepting
  <2>3. CASE ~Accepting'
    BY <1>1, <2>1, <2>3 DEF Run!Next, Run!Close, Accepting
  <2>4. QED
    BY <2>2, <2>3
<1>3. CASE ~(args.graceful /\ Live(p) # {})
  <2>1. stop' = TRUE /\ UNCHANGED <<started, completed>> /\ Cancel(p)
    BY <1>3 DEF Stop
  <2>2. QED
    BY <2>1, CancelImplements
<1>4. QED
  BY <1>2, <1>3

-------------------------------------------------------------------------------
(* The inductive invariant: the counters balance until the summary, and    *)
(* who may be pending then.                                                *)
IInv ==
  /\ TypeOK
  /\ stop = (pc \in {"draining", "done"})
  /\ pc # "done" => interrupted = 0
  /\ pc # "done" => Balanced(wstate)
  /\ pc = "done" => Live(wstate) = {}
  /\ args.mode = "throughput" => pc # "ramping"
  /\ ~args.throttled => At(wstate, "waiting") = {}
  /\ SummaryAccounts

-------------------------------------------------------------------------------
(* Growing the pool. *)

(* Only slots that were not there become new. *)
LEMMA GrownPool ==
  ASSUME TypeOK, NEW n, NEW p \in GrownTo(n)
  PROVE  /\ p \in Pools
         /\ Count(p, "busy") = Count(wstate, "busy")
         /\ Count(p, "dead") = Count(wstate, "dead")
         /\ At(p, "waiting") = At(wstate, "waiting")
<1>1. PICK new \in SUBSET At(wstate, "none") :
        p = [w \in Slots |-> IF w \in new THEN "new" ELSE wstate[w]]
  BY DEF GrownTo
<1>2. p \in Pools
  BY <1>1 DEF TypeOK, Pools, SlotStates, Pending
<1>3. /\ At(p, "busy") = At(wstate, "busy")
      /\ At(p, "dead") = At(wstate, "dead")
      /\ At(p, "waiting") = At(wstate, "waiting")
  BY <1>1 DEF At
<1>4. QED
  BY <1>2, <1>3 DEF Count

(* The pool that is left when the run ends: the slots as they are, or      *)
(* grown in the same step.  If it was grown, the run is one that may       *)
(* cancel slots that never ran.                                            *)
EndPool(p) ==
  \/ p = wstate /\ EachHasRun
  \/ /\ pc = "ramping" /\ (~args.hold \/ args.epoch)
     /\ \E n : p \in GrownTo(n)

LEMMA EndPoolFacts ==
  ASSUME IInv, NEW p, EndPool(p)
  PROVE  /\ p \in Pools
         /\ Count(p, "busy") = Count(wstate, "busy")
         /\ Count(p, "dead") = Count(wstate, "dead")
         /\ ~args.throttled => At(p, "waiting") = {}
         /\ RunsOut => args.graceful \/ Live(p) = At(p, "busy")
<1>1. TypeOK /\ wstate \in Pools
  BY DEF IInv, TypeOK, Pools
<1>2. CASE p = wstate /\ EachHasRun
  <2>1. ~args.throttled => Live(p) = At(p, "busy")
    BY <1>2 DEF IInv, EachHasRun, Live, At, Pending
  <2>2. QED
    BY <1>1, <1>2, <2>1 DEF IInv, RunsOut
<1>3. CASE /\ pc = "ramping" /\ (~args.hold \/ args.epoch)
           /\ \E n : p \in GrownTo(n)
  BY <1>1, <1>3, GrownPool DEF IInv, RunsOut, TypeOK, Arguments
<1>4. QED
  BY <1>2, <1>3 DEF EndPool

-------------------------------------------------------------------------------
LEMMA NumStepsType ==
  ASSUME args \in Arguments
  PROVE  NumSteps \in Nat /\ NumSteps > 0
<1>1. args.steps \in StepCounts
  BY DEF Arguments
<1>2. args.steps \in Nat \ {0}
  BY <1>1, RampAssumption
<1>3. QED
  BY <1>2 DEF NumSteps

LEMMA InitEstablishes == Init => IInv
<1>. SUFFICES ASSUME Init
              PROVE  IInv
  OBVIOUS
<1>1. /\ args \in Arguments /\ stop = FALSE
      /\ started = 0 /\ completed = 0 /\ interrupted = 0 /\ worker_errors = 0
      /\ \/ wstate = [w \in Slots |-> "new"]
         \/ wstate = [w \in Slots |-> "none"]
      /\ \/ args.mode = "throughput" /\ pc = "holding" /\ step = NumSteps
         \/ args.mode = "ramp" /\ pc = "ramping" /\ step = 0
  BY DEF Init
<1>2. TypeOK
  <2>1. step \in 0 .. NumSteps
    BY <1>1, NumStepsType
  <2>2. wstate \in [Slots -> SlotStates]
    BY <1>1 DEF SlotStates, Pending
  <2>3. QED
    BY <1>1, <2>1, <2>2 DEF TypeOK
<1>3. At(wstate, "busy") = {} /\ At(wstate, "dead") = {} /\ At(wstate, "waiting") = {}
  BY <1>1 DEF At
<1>4. Balanced(wstate)
  <2>1. Count(wstate, "busy") = 0 /\ Count(wstate, "dead") = 0
    BY <1>3, FS_EmptySet DEF Count
  <2>2. QED
    BY <1>1, <2>1 DEF Balanced
<1>5. stop = (pc \in {"draining", "done"})
  <2>1. (pc \in {"draining", "done"}) = FALSE /\ stop = FALSE
    BY <1>1
  <2>2. QED
    BY <2>1
<1>6. pc # "done" /\ (args.mode = "throughput" => pc # "ramping")
  BY <1>1
<1>7. QED
  BY <1>1, <1>2, <1>3, <1>4, <1>5, <1>6 DEF IInv, SummaryAccounts

LEMMA SlotPreserves ==
  ASSUME IInv, NEW w \in Slots, SlotStep(w)
  PROVE  IInv'
<1>1. TypeOK
  BY DEF IInv, TypeOK
<1>2. PICK to \in {"busy", "waiting", "returned", "dead"} : MovesTo(w, to)
  BY <1>1, SlotStepMoves
<1>3. wstate[w] \in Pending /\ pc # "done"
  BY <1>2 DEF IInv, Live, MovesTo
<1>4. /\ TypeOK' /\ Balanced(wstate)'
      /\ UNCHANGED <<args, pc, step, stop, interrupted, worker_errors>>
  BY <1>1, <1>3, SlotStepPreserves DEF IInv
<1>5. ~args.throttled => At(wstate, "waiting")' = {}
  <2>1. ~args.throttled => to # "waiting"
    BY <1>2 DEF MovesTo
  <2>2. wstate' = [wstate EXCEPT ![w] = to] /\ wstate \in [Slots -> SlotStates]
    BY <1>1, <1>2 DEF MovesTo, TypeOK
  <2>3. QED
    BY <2>1, <2>2 DEF IInv, At
<1>6. QED
  BY <1>3, <1>4, <1>5 DEF IInv, TypeOK, SummaryAccounts

(* The ramp climbs or reaches the top, and the slots of the run grow. *)
LEMMA GrowPreserves ==
  ASSUME IInv, NEW n, wstate' \in GrownTo(n),
         pc \in {"ramping", "holding"}, pc' \in {"ramping", "holding"},
         step' \in 0 .. NumSteps,
         args.mode = "ramp",
         UNCHANGED <<args, stop, started, completed, interrupted, worker_errors>>
  PROVE  IInv'
<1>1. TypeOK
  BY DEF IInv, TypeOK
<1>2. /\ wstate' \in Pools
      /\ Count(wstate', "busy") = Count(wstate, "busy")
      /\ Count(wstate', "dead") = Count(wstate, "dead")
      /\ At(wstate', "waiting") = At(wstate, "waiting")
  BY <1>1, GrownPool
<1>3. Balanced(wstate)'
  <2>1. started = completed + Count(wstate, "busy") + Count(wstate, "dead")
    BY DEF IInv, Balanced
  <2>2. started' = completed' + Count(wstate', "busy") + Count(wstate', "dead")
    BY <1>2, <2>1
  <2>3. QED
    BY <2>2 DEF Balanced, Count, At
<1>4. TypeOK'
  BY <1>1, <1>2 DEF TypeOK, Pools, NumSteps, NumSteps
<1>5. ~args.throttled => At(wstate, "waiting")' = {}
  BY <1>2 DEF IInv, At
<1>6. QED
  BY <1>3, <1>4, <1>5 DEF IInv, SummaryAccounts

(* The run is stopped with the slots of p. *)
LEMMA StopPreserves ==
  ASSUME IInv, NEW p, EndPool(p), pc \in {"ramping", "holding"},
         Stop(p), step' \in 0 .. NumSteps
  PROVE  IInv'
<1>1. /\ TypeOK /\ ~stop /\ interrupted = 0
      /\ started = completed + Count(wstate, "busy") + Count(wstate, "dead")
      /\ stop' = TRUE /\ UNCHANGED <<args, started, completed>>
  BY DEF IInv, TypeOK, Balanced, Stop
<1>2. /\ p \in Pools
      /\ Count(p, "busy") = Count(wstate, "busy")
      /\ Count(p, "dead") = Count(wstate, "dead")
      /\ ~args.throttled => At(p, "waiting") = {}
      /\ RunsOut => args.graceful \/ Live(p) = At(p, "busy")
  BY EndPoolFacts
<1>3. Balanced(p)
  BY <1>1, <1>2 DEF Balanced
<1>4. CASE args.graceful /\ Live(p) # {}
  <2>1. /\ pc' = "draining" /\ wstate' = p
        /\ UNCHANGED <<interrupted, worker_errors>>
    BY <1>4 DEF Stop, drainVars
  <2>2. Balanced(wstate)' /\ TypeOK'
    BY <1>1, <1>2, <1>3, <2>1 DEF Balanced, Count, At, TypeOK, Pools, NumSteps
  <2>3. ~args.throttled => At(wstate, "waiting")' = {}
    BY <1>2, <2>1 DEF At
  <2>4. QED
    BY <1>1, <1>4, <2>1, <2>2, <2>3 DEF IInv, SummaryAccounts
<1>5. CASE ~(args.graceful /\ Live(p) # {})
  <2>1. Cancel(p)
    BY <1>5 DEF Stop
  <2>2. /\ pc' = "done" /\ wstate' \in Pools
        /\ interrupted' \in Nat /\ worker_errors' \in Nat /\ Live(wstate') = {}
        /\ Live(p) = At(p, "busy")
             => started' = completed' + interrupted' + worker_errors'
    BY <1>1, <1>2, <1>3, <2>1, CancelAccounts
  <2>3. TypeOK'
    BY <1>1, <2>2 DEF TypeOK, Pools, NumSteps
  <2>4. RunsOut => Live(p) = At(p, "busy")
    BY <1>2, <1>5 DEF Live, At, Pending
  <2>5. At(wstate, "waiting")' = {}
    BY <2>2 DEF At, Live, Pending
  <2>6. SummaryAccounts'
    BY <1>1, <2>2, <2>4 DEF SummaryAccounts, RunsOut
  <2>7. Live(wstate)' = {}
    BY <2>2 DEF Live
  <2>8. QED
    BY <1>1, <2>2, <2>3, <2>5, <2>6, <2>7 DEF IInv
<1>6. QED
  BY <1>4, <1>5

(* How the run's coroutine moves: it grows the pool, or stops it. *)
LEMMA DriverMoves ==
  ASSUME IInv, Driver
  PROVE  /\ pc \in {"ramping", "holding"} /\ step' \in 0 .. NumSteps
         /\ \/ /\ \E n : wstate' \in GrownTo(n)
               /\ pc' \in {"ramping", "holding"} /\ args.mode = "ramp"
               /\ UNCHANGED <<args, stop, started, completed, interrupted, worker_errors>>
            \/ \E p : EndPool(p) /\ Stop(p)
<1>0. step \in 0 .. NumSteps /\ NumSteps \in Nat /\ NumSteps > 0
        /\ MaxConcurrency \in Nat
  <2>1. MaxConcurrency \in Nat
    BY SlotsAssumption, FS_CardinalityType DEF MaxConcurrency
  <2>2. QED
    BY <2>1, NumStepsType DEF IInv, TypeOK
<1>m. pc = "ramping" => args.mode = "ramp"
  BY DEF IInv, TypeOK, Arguments
<1>1. CASE Climb
  BY <1>0, <1>m, <1>1 DEF Climb, drainVars
<1>2. CASE Reach
  BY <1>0, <1>m, <1>2 DEF Reach, drainVars
<1>3. CASE RunOut \/ HoldOver
  BY <1>0, <1>3 DEF RunOut, HoldOver, EndPool
<1>4. CASE ClimbTooLate
  BY <1>0, <1>4 DEF ClimbTooLate, EndPool
<1>5. CASE ReachAndStop
  BY <1>0, <1>5 DEF ReachAndStop, EndPool
<1>6. QED
  BY <1>1, <1>2, <1>3, <1>4, <1>5 DEF Driver

(* A drain that ends, in time or not, leaves no slot that never ran. *)
LEMMA DrainedPool ==
  ASSUME IInv, Drain
  PROVE  /\ pc = "draining" /\ stop /\ interrupted = 0 /\ Cancel(wstate)
         /\ UNCHANGED <<args, step, stop, started, completed>>
         /\ ~args.throttled => Live(wstate) = At(wstate, "busy")
<1>1. /\ pc = "draining" /\ Cancel(wstate)
      /\ UNCHANGED <<args, step, stop, started, completed>>
      /\ Live(wstate) = {} \/ EachHasRun
  BY DEF Drain, DrainDone, DrainTimeout
<1>2. ~args.throttled => Live(wstate) = At(wstate, "busy")
  BY <1>1 DEF IInv, EachHasRun, Live, At, Pending
<1>3. QED
  BY <1>1, <1>2 DEF IInv

LEMMA DrainPreserves ==
  ASSUME IInv, Drain
  PROVE  IInv'
<1>1. /\ TypeOK /\ wstate \in Pools /\ Balanced(wstate)
  BY DrainedPool DEF IInv, TypeOK, Pools
<1>2. /\ pc = "draining" /\ stop /\ Cancel(wstate)
      /\ UNCHANGED <<args, step, stop, started, completed>>
      /\ ~args.throttled => Live(wstate) = At(wstate, "busy")
  BY DrainedPool
<1>3. /\ pc' = "done" /\ wstate' \in Pools
      /\ interrupted' \in Nat /\ worker_errors' \in Nat /\ Live(wstate') = {}
      /\ ~args.throttled => started' = completed' + interrupted' + worker_errors'
  BY <1>1, <1>2, CancelAccounts
<1>4. TypeOK'
  BY <1>1, <1>2, <1>3 DEF TypeOK, NumSteps, Pools, IInv
<1>5. At(wstate, "waiting")' = {} /\ Live(wstate)' = {}
  BY <1>3 DEF At, Live, Pending
<1>6. stop' = (pc' \in {"draining", "done"})
  BY <1>1, <1>2, <1>3 DEF TypeOK
<1>7. SummaryAccounts'
  BY <1>2, <1>3 DEF SummaryAccounts, RunsOut
<1>8. QED
  BY <1>3, <1>4, <1>5, <1>6, <1>7 DEF IInv

LEMMA StutterPreserves ==
  ASSUME IInv, UNCHANGED vars
  PROVE  IInv'
BY DEF IInv, vars, drainVars, TypeOK, NumSteps, RunsOut, Balanced, Count, At, Live,
       SummaryAccounts

LEMMA NextPreserves == IInv /\ [Next]_vars => IInv'
<1>. SUFFICES ASSUME IInv, [Next]_vars
              PROVE  IInv'
  OBVIOUS
<1>1. CASE Driver
  BY <1>1, DriverMoves, GrowPreserves, StopPreserves
<1>2. CASE Drain
  BY <1>2, DrainPreserves
<1>3. CASE UNCHANGED vars
  BY <1>3, StutterPreserves
<1>4. ASSUME NEW w \in Slots, SlotStep(w)
      PROVE  IInv'
  BY <1>4, SlotPreserves
<1>5. QED
  BY <1>1, <1>2, <1>3, <1>4 DEF Next, Finished, vars

-------------------------------------------------------------------------------
(* The invariant holds throughout, in both modes.                          *)
THEOREM Invariance == Spec => []IInv
<1>1. QED
  BY InitEstablishes, NextPreserves, PTL DEF Spec

(* The type invariant of a ramp-up run; the ramp takes no step too many. *)
THEOREM TypeCorrect == Spec => []TypeOK
<1>1. IInv => TypeOK
  BY DEF IInv
<1>2. QED
  BY <1>1, Invariance, PTL

(* A ramp-up accounts for every request, if no slot sleeps in _throttle    *)
(* and the last slots run before they are cancelled.                       *)
THEOREM SummaryCorrect == Spec => []SummaryAccounts
<1>1. IInv => SummaryAccounts
  BY DEF IInv
<1>2. QED
  BY <1>1, Invariance, PTL

(* Whatever the throttle does, results balance requests until the end. *)
THEOREM Conservation == Spec => []RequestsAreConserved
<1>1. IInv => RequestsAreConserved
  BY DEF IInv, RequestsAreConserved, Balanced, Count, Busy, Dead
<1>2. QED
  BY <1>1, Invariance, PTL

(* All of the above together: the books of a run balance in every state.  *)
THEOREM BooksBalance == Spec => []ResultsBalance
<1>1. QED
  BY TypeCorrect, SummaryCorrect, Conservation, PTL DEF ResultsBalance

(* In both modes, with any arguments, it implements the promise of a load  *)
(* run: no request after the end but a throttled one, none missing.        *)
THEOREM Implementation == Spec => ImplementsLoadRun
<1>1. Init => Run!Init
  <2>1. Init => Dead = {} /\ pc # "done"
    BY DEF Init, Dead, At
  <2>2. QED
    BY <2>1, FS_EmptySet DEF Init, Run!Init
<1>2. IInv /\ [Next]_vars => [Run!Next]_(Run!vars)
  <2>. SUFFICES ASSUME IInv, [Next]_vars
                PROVE  [Run!Next]_(Run!vars)
    OBVIOUS
  <2>1. TypeOK
    BY DEF IInv, TypeOK
  <2>2. ASSUME NEW w \in Slots, SlotStep(w)
        PROVE  [Run!Next]_(Run!vars)
    <3>1. PICK to \in {"busy", "waiting", "returned", "dead"} : MovesTo(w, to)
      BY <2>1, <2>2, SlotStepMoves
    <3>2. pc # "done"
      BY <3>1 DEF IInv, Live, At, MovesTo
    <3>3. QED
      BY <2>1, <2>2, <3>2, SlotStepImplements DEF IInv
  <2>3. ASSUME NEW n, wstate' \in GrownTo(n), pc # "done", pc' # "done",
               UNCHANGED <<stop, started, completed, interrupted>>
        PROVE  [Run!Next]_(Run!vars)
    <3>1. /\ Count(wstate', "dead") = Count(wstate, "dead")
          /\ At(wstate', "waiting") = At(wstate, "waiting")
      BY <2>1, <2>3, GrownPool
    <3>2. /\ Cardinality(Dead)' = Cardinality(Dead)
          /\ At(wstate, "waiting")' = At(wstate, "waiting")
      BY <3>1 DEF Count, Dead, At
    <3>3. QED
      BY <2>3, <3>2 DEF Run!vars
  <2>4. ASSUME NEW p, EndPool(p), Stop(p), pc \in {"ramping", "holding"}
        PROVE  [Run!Next]_(Run!vars)
    <3>1. /\ p \in Pools
          /\ Count(p, "busy") = Count(wstate, "busy")
          /\ Count(p, "dead") = Count(wstate, "dead")
      BY <2>4, EndPoolFacts
    <3>2. ~stop /\ pc # "done" /\ interrupted = 0 /\ Balanced(wstate)
      BY <2>4 DEF IInv
    <3>3. Balanced(p)
      BY <3>1, <3>2 DEF Balanced
    <3>4. QED
      BY <2>1, <2>4, <3>1, <3>2, <3>3, StopImplements
  <2>5. CASE Driver
    BY <2>3, <2>4, <2>5, DriverMoves
  <2>6. CASE Drain
    <3>1. /\ pc = "draining" /\ interrupted = 0 /\ Cancel(wstate)
          /\ stop' = TRUE /\ UNCHANGED <<started, completed>>
      BY <2>1, <2>6, DrainedPool DEF TypeOK
    <3>2. Balanced(wstate) /\ wstate \in Pools
      BY <2>1, <3>1 DEF IInv, TypeOK, Pools
    <3>3. QED
      BY <2>1, <3>1, <3>2, CancelImplements
  <2>7. CASE UNCHANGED vars
    BY <2>7 DEF vars, drainVars, Run!vars, Dead, At
  <2>8. QED
    BY <2>2, <2>5, <2>6, <2>7 DEF Next, Finished, vars
<1>3. QED
  BY <1>1, <1>2, Invariance, PTL DEF Spec, ImplementsLoadRun, Run!Spec

-------------------------------------------------------------------------------
(* The line of the ramp. *)

LEMMA DivisionFacts ==
  ASSUME NEW a \in Nat, NEW b \in Nat \ {0}
  PROVE  /\ a \div b \in Nat /\ a % b \in 0 .. b - 1
         /\ a = b * (a \div b) + (a % b)
<1>1. a \div b \in Nat
  OBVIOUS
<1>2. a % b \in 0 .. b - 1
  OBVIOUS
<1>3. a = b * (a \div b) + (a % b)
  OBVIOUS
<1>4. QED
  BY <1>1, <1>2, <1>3

LEMMA ProductGrows ==
  ASSUME NEW k \in Nat, NEW m \in Nat, NEW n \in Nat, m <= n
  PROVE  k * m <= k * n /\ k * m \in Nat /\ k * n \in Nat
<1>1. n - m \in Nat /\ k * (n - m) \in Nat
  OBVIOUS
<1>2. k * n = k * m + k * (n - m)
  OBVIOUS
<1>3. QED
  BY <1>1, <1>2

(* Rounding to even keeps the order, and does nothing to what is whole.    *)
LEMMA RoundGrows ==
  ASSUME NEW a \in Nat, NEW c \in Nat, a <= c, NEW b \in Nat \ {0}
  PROVE  Round(a, b) \in Nat /\ Round(a, b) <= Round(c, b)
<1>. DEFINE la == a \div b
            lc == c \div b
            ra == a % b
            rc == c % b
<1>1. /\ la \in Nat /\ ra \in 0 .. b - 1 /\ a = b * la + ra
      /\ lc \in Nat /\ rc \in 0 .. b - 1 /\ c = b * lc + rc
  BY DivisionFacts
<1>2. /\ Round(a, b) = IF 2 * ra > b \/ (2 * ra = b /\ la % 2 = 1) THEN la + 1 ELSE la
      /\ Round(c, b) = IF 2 * rc > b \/ (2 * rc = b /\ lc % 2 = 1) THEN lc + 1 ELSE lc
  BY DEF Round
<1>. HIDE DEF la, lc, ra, rc
<1>3. la <= lc
  <2>1. SUFFICES ASSUME lc + 1 <= la PROVE FALSE
    BY <1>1
  <2>2. b * (lc + 1) <= b * la
    BY <1>1, <2>1, ProductGrows
  <2>3. b * (lc + 1) = b * lc + b
    BY <1>1
  <2>4. b * lc \in Nat /\ b * la \in Nat
    BY <1>1
  <2>5. QED
    BY <1>1, <2>2, <2>3, <2>4
<1>4. CASE la = lc
  <2>1. ra <= rc
    BY <1>1, <1>4
  <2>2. QED
    BY <1>1, <1>2, <1>4, <2>1
<1>5. CASE la < lc
  BY <1>1, <1>2, <1>5
<1>6. QED
  BY <1>1, <1>3, <1>4, <1>5

LEMMA RoundWhole ==
  ASSUME NEW d \in Nat, NEW b \in Nat \ {0}
  PROVE  Round(d * b, b) = d
<1>1. (d * b) \div b = d /\ (d * b) % b = 0
  OBVIOUS
<1>2. QED
  BY <1>1 DEF Round

(* The levels never fall, and the last one is max_concurrency.             *)
LEMMA LevelFacts ==
  ASSUME TypeOK
  PROVE  /\ \A s \in 0 .. NumSteps - 1 : Level(s) \in Nat
         /\ \A s \in 0 .. NumSteps - 2 : Level(s) <= Level(s + 1)
         /\ Level(NumSteps - 1) = MaxConcurrency
<1>1. NumSteps \in Nat \ {0}
  BY RampAssumption DEF TypeOK, NumSteps, Arguments
<1>2. /\ MaxConcurrency \in Nat /\ StartConcurrency \in Nat
      /\ MaxConcurrency - StartConcurrency \in Nat
  BY SlotsAssumption, RampAssumption, FS_CardinalityType DEF MaxConcurrency
<1>. DEFINE d == MaxConcurrency - StartConcurrency
            b == NumSteps - 1
<1>3. CASE NumSteps = 1
  BY <1>2, <1>3 DEF Level
<1>4. CASE NumSteps # 1
  <2>1. b \in Nat \ {0} /\ d \in Nat
    BY <1>1, <1>2, <1>4
  <2>2. \A s : Level(s) = StartConcurrency + Round(d * s, b)
    BY <1>4 DEF Level
  <2>. HIDE DEF d, b
  <2>3. ASSUME NEW s \in 0 .. b
        PROVE  Level(s) \in Nat /\ (s # b => Level(s) <= Level(s + 1))
    <3>1. /\ d * s \in Nat /\ d * (s + 1) \in Nat /\ d * s <= d * (s + 1)
      BY <2>1, ProductGrows
    <3>2. /\ Round(d * s, b) \in Nat /\ Round(d * (s + 1), b) \in Nat
          /\ Round(d * s, b) <= Round(d * (s + 1), b)
      BY <2>1, <3>1, RoundGrows
    <3>3. QED
      BY <1>2, <2>2, <3>2
  <2>4. Level(b) = MaxConcurrency
    <3>1. Round(d * b, b) = d
      BY <2>1, RoundWhole
    <3>2. QED
      BY <1>2, <2>2, <3>1 DEF d
  <2>5. QED
    BY <1>1, <2>1, <2>3, <2>4 DEF b
<1>5. QED
  BY <1>3, <1>4


(* The pool only grows, and to the level that is asked for.                *)
Made(p) == {w \in Slots : p[w] # "none"}

LEMMA MadeFacts ==
  ASSUME NEW p
  PROVE  /\ IsFiniteSet(Made(p)) /\ Cardinality(Made(p)) \in Nat
         /\ Cardinality(Made(p)) <= MaxConcurrency
BY SlotsAssumption, FS_Subset, FS_CardinalityType DEF Made, MaxConcurrency

LEMMA GrownMade ==
  ASSUME NEW n, NEW p \in GrownTo(n)
  PROVE  Cardinality(Made(p)) =
           IF Cardinality(Made(wstate)) < n THEN n ELSE Cardinality(Made(wstate))
<1>1. Created = Made(wstate)
  BY DEF Created, Made
<1>2. PICK new \in SUBSET At(wstate, "none") :
        /\ p = [w \in Slots |-> IF w \in new THEN "new" ELSE wstate[w]]
        /\ Cardinality(Created \cup new)
             = IF Cardinality(Created) < n THEN n ELSE Cardinality(Created)
  BY DEF GrownTo
<1>3. Made(p) = Created \cup new
  BY <1>2 DEF Made, Created, At
<1>4. QED
  BY <1>1, <1>2, <1>3

(* Before its first step a ramp has no slot.                               *)
Planned ==
  /\ pc = "ramping" /\ step = 0 => Made(wstate) = {}
  /\ OnPlan

LEMMA PlannedInit == Init => Planned
<1>. SUFFICES ASSUME Init
              PROVE  Planned
  OBVIOUS
<1>1. TypeOK /\ Level(NumSteps - 1) = MaxConcurrency
  BY InitEstablishes, LevelFacts DEF IInv
<1>2. CASE pc = "ramping"
  BY <1>2 DEF Init, Planned, OnPlan, Made
<1>3. CASE pc = "holding"
  <2>1. Created = Slots
    BY <1>3 DEF Init, Created
  <2>2. QED
    BY <1>1, <1>3, <2>1 DEF Planned, OnPlan, MaxConcurrency
<1>4. QED
  BY <1>2, <1>3 DEF Init

LEMMA ClimbIsPlanned ==
  ASSUME IInv, Planned, Climb
  PROVE  Planned'
<1>1. TypeOK /\ NumSteps \in Nat /\ step \in 0 .. NumSteps /\ NumSteps' = NumSteps
  BY NumStepsType DEF IInv, TypeOK, Climb, NumSteps
<1>2. /\ pc = "ramping" /\ pc' = "ramping" /\ step < NumSteps - 1 /\ step' = step + 1
      /\ wstate' \in GrownTo(Level(step))
  BY DEF Climb
<1>3. Level(step) \in Nat
  BY <1>1, <1>2, LevelFacts
<1>4. Cardinality(Made(wstate)) <= Level(step)
  <2>1. CASE step = 0
    BY <1>2, <1>3, <2>1, FS_EmptySet DEF Planned
  <2>2. CASE step # 0
    <3>1. Cardinality(Made(wstate)) = Level(step - 1)
      BY <1>1, <1>2, <2>2 DEF Planned, OnPlan, Created, Made
    <3>2. step - 1 \in 0 .. NumSteps - 2 /\ (step - 1) + 1 = step
      BY <1>1, <1>2, <2>2
    <3>3. Level(step - 1) <= Level((step - 1) + 1)
      BY <1>1, <3>2, LevelFacts
    <3>4. QED
      BY <3>1, <3>2, <3>3
  <2>3. QED
    BY <2>1, <2>2
<1>5. Cardinality(Made(wstate')) = Level(step)
  BY <1>2, <1>3, <1>4, MadeFacts, GrownMade
<1>6. Level(step - 1)' = Level(step) /\ step' > 0
  <2>1. step' - 1 = step /\ step' > 0
    BY <1>1, <1>2
  <2>2. QED
    BY <1>1, <2>1 DEF Level
<1>7. Created' = Made(wstate')
  BY DEF Created, Made
<1>8. QED
  BY <1>2, <1>5, <1>6, <1>7 DEF Planned, OnPlan

LEMMA ReachIsPlanned ==
  ASSUME IInv, Reach
  PROVE  Planned'
<1>1. TypeOK /\ pc' = "holding" /\ wstate' \in GrownTo(MaxConcurrency)
  BY DEF IInv, Reach
<1>2. MaxConcurrency \in Nat /\ Level(NumSteps - 1) = MaxConcurrency
  BY <1>1, LevelFacts, SlotsAssumption, FS_CardinalityType DEF MaxConcurrency
<1>3. Cardinality(Made(wstate')) = MaxConcurrency
  BY <1>1, <1>2, MadeFacts, GrownMade
<1>4. Created' = Made(wstate') /\ Level(NumSteps - 1)' = Level(NumSteps - 1)
  BY DEF Created, Made, Reach, Level, NumSteps
<1>5. QED
  BY <1>1, <1>2, <1>3, <1>4 DEF Planned, OnPlan

LEMMA PlannedNext == IInv /\ Planned /\ [Next]_vars => Planned'
<1>. SUFFICES ASSUME IInv, Planned, [Next]_vars
              PROVE  Planned'
  OBVIOUS
<1>1. CASE Climb
  BY <1>1, ClimbIsPlanned
<1>2. CASE Reach
  BY <1>2, ReachIsPlanned
<1>3. CASE ClimbTooLate \/ RunOut \/ ReachAndStop \/ HoldOver \/ Drain
  <2>1. pc' \in {"draining", "done"}
    BY <1>3 DEF ClimbTooLate, RunOut, ReachAndStop, HoldOver, Drain, DrainDone,
                DrainTimeout, Stop, Cancel
  <2>2. QED
    BY <2>1 DEF Planned, OnPlan
<1>4. CASE \E w \in Slots : SlotStep(w)
  <2>1. PICK w \in Slots : SlotStep(w)
    BY <1>4
  <2>2. PICK to \in {"busy", "waiting", "returned", "dead"} : MovesTo(w, to)
    BY <2>1, SlotStepMoves DEF IInv
  <2>3. Made(wstate') = Made(wstate)
    BY <2>2 DEF MovesTo, Made, Pending, IInv, TypeOK
  <2>4. UNCHANGED <<args, pc, step>>
    BY <2>2 DEF MovesTo
  <2>5. Created = Made(wstate) /\ Created' = Made(wstate')
    BY DEF Created, Made
  <2>6. QED
    BY <2>3, <2>4, <2>5 DEF Planned, OnPlan, Level, NumSteps
<1>5. CASE UNCHANGED vars
  BY <1>5 DEF vars, Planned, OnPlan, Level, NumSteps, Created, Made
<1>6. QED
  BY <1>1, <1>2, <1>3, <1>4, <1>5 DEF Next, Driver, Finished

(* For any start and maximum and any number of steps, a ramp is on its     *)
(* planned line after every step: target_concurrency_at_step, rounded to   *)
(* even, never falls and ends at max_concurrency.                          *)
THEOREM RampIsOnPlan == Spec => []OnPlan
<1>1. Planned => OnPlan
  BY DEF Planned
<1>2. QED
  BY <1>1, PlannedInit, PlannedNext, Invariance, PTL DEF Spec

===============================================================================
