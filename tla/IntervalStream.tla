---------------------------- MODULE IntervalStream ----------------------------
(***************************************************************************)
(* LoadTestEngine._stream_intervals (http_bench/load_test.py): while a run *)
(* is going, a task wakes about once per bucket and hands every window of  *)
(* time that has closed to on_interval; when the run has stopped it        *)
(* flushes the window that is still open.  The summary buckets the same    *)
(* results again at the end (_build_intervals).                            *)
(*                                                                         *)
(* Time is a count of ticks since the start of the run; a coroutine may    *)
(* run any time after its timer.  Appending a result and emitting windows  *)
(* do not suspend, so each is one step.                                    *)
(***************************************************************************)
EXTENDS Naturals, Sequences, FiniteSets

CONSTANTS
  Bucket,      \* ticks per interval_bucket_s
  Lateness,    \* offsets at which a run may start (start_at in the past)
  RunTicks,    \* bound: the offset at which stop_event is set at the latest
  MaxResults   \* bound: results of the run

ASSUME BucketAssumption == Bucket \in Nat \ {0}
ASSUME LatenessAssumption == Lateness \subseteq 0 .. RunTicks
ASSUME BoundsAssumption == RunTicks \in Nat /\ MaxResults \in Nat

VARIABLES
  empties,    \* emit_empty_intervals
  now,        \* _offset()
  pc,         \* where the run is
  offsets,    \* completed_at_offset_s of each of timed_results
  streamer,   \* the streaming task: new, asleep or done
  wake,       \* when its sleep is over
  cursor,     \* results that were emitted
  window,     \* the next window to consider
  streamed,   \* what on_interval was called with
  intervals   \* what the summary lists

streamVars == <<streamer, wake, cursor, window, streamed>>
vars == <<empties, now, pc, offsets, streamVars, intervals>>

stop == pc # "running"
Results == 1 .. Len(offsets)

(* A window that was emitted, with its results; flush: emit(final=True). *)
Emission == [window : Nat, results : SUBSET (1 .. MaxResults), flush : BOOLEAN]
Interval == [window : Nat, results : SUBSET (1 .. MaxResults)]

TypeOK ==
  /\ empties \in BOOLEAN
  /\ now \in 0 .. RunTicks + Bucket
  /\ pc \in {"running", "draining", "joining", "done"}
  /\ offsets \in Seq(Nat) /\ Len(offsets) <= MaxResults
  /\ streamer \in {"new", "asleep", "done"}
  /\ wake \in Nat
  /\ cursor \in 0 .. Len(offsets)
  /\ window \in Nat
  /\ streamed \subseteq Emission
  /\ intervals \subseteq Interval

Init ==
  /\ empties \in BOOLEAN
  /\ now \in Lateness
  /\ pc = "running"
  /\ offsets = <<>>
  /\ streamer = "new" /\ wake = 0
  /\ cursor = 0 /\ window = 0
  /\ streamed = {} /\ intervals = {}

-------------------------------------------------------------------------------
(* The results. *)

Tick ==
  /\ pc # "done"
  /\ now < IF stop THEN RunTicks + Bucket ELSE RunTicks
  /\ now' = now + 1
  /\ UNCHANGED <<empties, pc, offsets, streamVars, intervals>>

\* Mutant: the offset is read before the lock is waited for.
RecordLate ==
  /\ pc \in {"running", "draining"} /\ Len(offsets) < MaxResults
  /\ \E t \in 0 .. now : now <= t + 1 /\ offsets' = Append(offsets, t)
  /\ UNCHANGED <<empties, now, pc, streamVars, intervals>>

(* A worker appends its result, with the offset of that moment. *)
Record ==
  /\ pc \in {"running", "draining"} /\ Len(offsets) < MaxResults
  /\ offsets' = Append(offsets, now)
  /\ UNCHANGED <<empties, now, pc, streamVars, intervals>>

-------------------------------------------------------------------------------
(* emit(final), from cursor c and window w. *)

(* The results taken up to the end of window w: those before the first one *)
(* at or past its boundary.                                                *)
Taken(c, w) ==
  {k \in Results : k > c /\ \A j \in c + 1 .. k : offsets[j] < (w + 1) * Bucket}

(* The results of window v, if the windows w .. v - 1 were emitted before. *)
Batch(c, w, v) == Taken(c, v) \ (IF v = w THEN {} ELSE Taken(c, v - 1))

\* Mutant: a window closes when a later result is past its boundary.
GoesOnIfLater(c, w, v, final) ==
  IF final THEN \E k \in Results : k > c /\ offsets[k] >= v * Bucket
           ELSE \E k \in Results : offsets[k] >= (v + 1) * Bucket

(* Whether the loop goes on to emit window v: it has closed, or it is the  *)
(* flush and results are left.                                             *)
GoesOn(c, w, v, final) ==
  \/ now >= (v + 1) * Bucket
  \/ final /\ \E k \in Results : k > c /\ (v > w => k \notin Taken(c, v - 1))

(* The windows that one emit handles; a window without results is only     *)
(* reported if the caller asked for empty ones.                            *)
Handled(c, w, final) ==
  {v \in w .. w + now \div Bucket : \A u \in w .. v : GoesOn(c, w, u, final)}

Emitted(c, w, final) ==
  {e \in {[window |-> v, results |-> Batch(c, w, v), flush |-> final] :
            v \in Handled(c, w, final)} :
     empties \/ e.results # {}}

WindowAfter(c, w, final) == w + Cardinality(Handled(c, w, final))

CursorAfter(c, w, final) ==
  c + Cardinality(UNION {Batch(c, w, v) : v \in Handled(c, w, final)})

-------------------------------------------------------------------------------
(* The streaming task. *)

Emit(final) ==
  /\ streamed' = streamed \cup Emitted(cursor, window, final)
  /\ cursor' = CursorAfter(cursor, window, final)
  /\ window' = WindowAfter(cursor, window, final)

(* The first look at stop_event. *)
Begin ==
  /\ streamer = "new"
  /\ \/ /\ ~stop /\ streamer' = "asleep" /\ wake' = now + Bucket
        /\ UNCHANGED <<cursor, window, streamed>>
     \/ /\ stop /\ streamer' = "done"
        /\ Emit(TRUE)
        /\ UNCHANGED wake
  /\ UNCHANGED <<empties, now, pc, offsets, intervals>>

(* The task wakes, emits what has closed, and sleeps again. *)
Wake ==
  /\ streamer = "asleep" /\ now >= wake /\ ~stop
  /\ Emit(FALSE)
  /\ wake' = now + Bucket
  /\ UNCHANGED <<empties, now, pc, offsets, streamer, intervals>>

\* Mutant: the task ends with stop_event and flushes nothing.
WakeAndLeave ==
  /\ streamer = "asleep" /\ now >= wake /\ stop
  /\ Emit(FALSE)
  /\ streamer' = "done"
  /\ UNCHANGED <<empties, now, pc, offsets, wake, intervals>>

(* It wakes when the run was stopped: it emits what has closed, and then   *)
(* flushes the rest without suspending in between.                         *)
WakeAndFlush ==
  LET c == CursorAfter(cursor, window, FALSE)
      w == WindowAfter(cursor, window, FALSE)
  IN /\ streamer = "asleep" /\ now >= wake /\ stop
     /\ streamed' = streamed \cup Emitted(cursor, window, FALSE)
                              \cup Emitted(c, w, TRUE)
     /\ cursor' = CursorAfter(c, w, TRUE)
     /\ window' = WindowAfter(c, w, TRUE)
     /\ streamer' = "done"
     /\ UNCHANGED <<empties, now, pc, offsets, wake, intervals>>

Stream == Begin \/ Wake \/ WakeAndFlush

-------------------------------------------------------------------------------
(* The run. *)

(* stop_event is set; requests are in flight until the drain is over.      *)
Stop ==
  /\ pc = "running"
  /\ pc' = "draining"
  /\ UNCHANGED <<empties, now, offsets, streamVars, intervals>>

DrainEnds ==
  /\ pc = "draining"
  /\ pc' = "joining"
  /\ UNCHANGED <<empties, now, offsets, streamVars, intervals>>

(* The results whose offset is in window v, as _build_intervals sees them. *)
InWindow(v) == {k \in Results : offsets[k] \div Bucket = v}

(* _stop_stream has waited for the task; the summary is built. *)
Report ==
  /\ pc = "joining" /\ streamer = "done"
  /\ pc' = "done"
  /\ intervals' = {[window |-> v, results |-> InWindow(v)] :
                     v \in {offsets[k] \div Bucket : k \in Results}}
  /\ UNCHANGED <<empties, now, offsets, streamVars>>

Finished == pc = "done" /\ UNCHANGED vars

-------------------------------------------------------------------------------
Next == Tick \/ Record \/ Stream \/ Stop \/ DrainEnds \/ Report \/ Finished

Spec == Init /\ [][Next]_vars

-------------------------------------------------------------------------------
(* Properties. *)

(* The cursor neither skips a result nor emits one twice (930-931): what   *)
(* was emitted are the first `cursor` results, in disjoint windows.        *)
EmittedOnce ==
  /\ UNION {e.results : e \in streamed} = 1 .. cursor
  /\ \A d, e \in streamed :
       d # e => d.window # e.window /\ d.results \cap e.results = {}

(* A window that was emitted because it had closed keeps its results: none *)
(* recorded later belongs to it (933-937).                                 *)
ClosedIsFinal ==
  \A e \in streamed : ~e.flush => e.results = InWindow(e.window)

(* The stream does not lag: whenever the task has woken, every window that *)
(* had closed by then was handled, also in a gap without results: the      *)
(* display of a healthy but slow run does not freeze (976-988).            *)
StreamIsCurrent ==
  [][streamer = "asleep" /\ wake' # wake => (window' + 1) * Bucket > now]_vars

(* If no request completes after the flush, the stream and the summary     *)
(* agree window by window, empty ones aside.                               *)
QuietDrainAgrees ==
  pc = "done" /\ cursor = Len(offsets)
    => {[window |-> e.window, results |-> e.results] :
          e \in {d \in streamed : d.results # {}}} = intervals

(* What is streamed is true: each result once, in its window, and the same *)
(* as in the summary if nothing completes after the flush.                 *)
StreamIsFaithful == TypeOK /\ EmittedOnce /\ ClosedIsFinal /\ QuietDrainAgrees

(* The flush leaves nothing behind: every result recorded before it was    *)
(* handed over.                                                            *)
FlushIsComplete ==
  [][streamer # "done" /\ streamer' = "done" => cursor' = Len(offsets)]_vars

===============================================================================
