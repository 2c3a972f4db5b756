------------------------------- MODULE LoadRun -------------------------------
(***************************************************************************)
(* What every load run of LoadTestEngine promises, whatever shapes its     *)
(* load: requests are issued only while the run accepts them, each issued  *)
(* request is answered, crashes its worker or is cut off at the end, and   *)
(* the summary hides none of them (RunCounters, load_test.py).             *)
(* The pacing, the backlog and the pool of workers are left to the modules *)
(* that implement this one.                                                *)
(***************************************************************************)
EXTENDS Naturals

VARIABLES
  accepting,  \* stop_event is not set
  started,    \* requests handed to the engine
  answered,   \* results in timed_results
  crashed,    \* requests whose worker died of an exception
  cut,        \* requests cancelled when the drain deadline expired
  reported    \* the summary has been built

vars == <<accepting, started, answered, crashed, cut, reported>>

TypeOK ==
  /\ accepting \in BOOLEAN
  /\ started \in Nat
  /\ answered \in Nat
  /\ crashed \in Nat
  /\ cut \in Nat
  /\ reported \in BOOLEAN

(* Requests the engine is working on. *)
inFlight == started - (answered + crashed + cut)

Init ==
  /\ accepting = TRUE
  /\ started = 0
  /\ answered = 0
  /\ crashed = 0
  /\ cut = 0
  /\ reported = FALSE

(* The run may stop accepting with the last request it issues. *)
Start ==
  /\ accepting
  /\ accepting' \in BOOLEAN
  /\ started' = started + 1
  /\ UNCHANGED <<answered, crashed, cut, reported>>

(* A worker that has its answer may go straight on to its next request. *)
Answer ==
  /\ ~reported
  /\ inFlight > 0
  /\ answered' = answered + 1
  /\ \/ UNCHANGED started
     \/ accepting /\ started' = started + 1
  /\ UNCHANGED <<accepting, crashed, cut, reported>>

Crash ==
  /\ ~reported
  /\ inFlight > 0
  /\ crashed' = crashed + 1
  /\ UNCHANGED <<accepting, started, answered, cut, reported>>

Close ==
  /\ accepting
  /\ accepting' = FALSE
  /\ UNCHANGED <<started, answered, crashed, cut, reported>>

(* The summary: whatever is still in flight is cut off and counted, so the *)
(* counters add up to no less than was started.  A run without grace stops *)
(* accepting in the same step.                                             *)
Report ==
  /\ ~reported
  /\ accepting' = FALSE
  /\ cut' \in Nat /\ cut' >= inFlight
  /\ reported' = TRUE
  /\ UNCHANGED <<started, answered, crashed>>

Next == Start \/ Answer \/ Crash \/ Close \/ Report

Spec == Init /\ [][Next]_vars

==============================================================================
