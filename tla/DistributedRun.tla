---------------------------- MODULE DistributedRun ----------------------------
(***************************************************************************)
(* run_distributed (http_bench/distributed.py): a load test by several     *)
(* local processes.  The parent plans which targets each worker drives and *)
(* at what rate, chooses the start epoch, submits every planned worker to  *)
(* a ProcessPoolExecutor, collects the futures in order and merges the     *)
(* summaries of each target.  A worker imports the package, warms up,      *)
(* waits for the epoch (LoadTestEngine._begin_run), runs its targets side  *)
(* by side and returns their summaries; it may raise instead, or be killed.*)
(*                                                                         *)
(* The clock is time.time(), in windows of interval_bucket_s, and shared   *)
(* by the processes of the machine.  When a process of the executor dies,  *)
(* the executor fails every future that is still pending.                  *)
(***************************************************************************)
EXTENDS Integers, FiniteSets, FiniteSetsExt

CONSTANTS
  Rate,          \* config.target_rps
  Duration,      \* config.duration_s
  Lead,          \* lead_s, from planning to the epoch
  MaxRequests,   \* bound on the requests of a worker to a target
  MaxTime,       \* bound on the clock
  Scenarios      \* the distributions, numbers of workers and of targets

TargetDistribution == {"replicate", "shard"}

Arguments == [distribution : TargetDistribution, paced : BOOLEAN,
              workers : Nat \ {0}, targets : Nat \ {0}]

ASSUME NumbersAssumption ==
  {Rate, Duration, Lead, MaxRequests, MaxTime} \subseteq Nat
ASSUME ScenariosAssumption == Scenarios \subseteq Arguments

(* A share is a float; the instances take rates that divide.               *)
ASSUME RateAssumption == \A a \in Scenarios : Rate % a.workers = 0

VARIABLES
  args,
  now,          \* time.time()
  proc,         \* what each planned worker is doing, or how it ended
  runStart,     \* the instant that the offsets of a worker count from
  lateness,     \* start_offset_s of each worker
  served,       \* when each worker's requests to each target completed
  ended,        \* when each worker's runs ended
  collector,    \* the worker whose future is collected next
  collected,    \* the workers whose summaries arrived
  failures,     \* the workers recorded as failed
  results       \* the merged summary of each target; set at the end

workerVars == <<proc, runStart, lateness, served, ended>>
collectorVars == <<collector, collected, failures, results>>
vars == <<args, now, workerVars, collectorVars>>

Workers == 0 .. args.workers - 1
Targets == 0 .. args.targets - 1
epoch == Lead

-------------------------------------------------------------------------------
(* The plan. *)

(* targets[index::workers]                                                 *)
Dealt(w) == {t \in Targets : t % args.workers = w}

Assigned(w) == IF args.distribution = "replicate" THEN Targets ELSE Dealt(w)

(* A worker with nothing to run is not started.                            *)
Planned == {w \in Workers : Assigned(w) # {}}

\* Mutant: the rate is split whatever the distribution.
AlwaysSplit == Rate \div args.workers

split_rps == Rate \div args.workers

(* A target driven by every worker gets a share from each, and one driven  *)
(* by a single worker gets the full rate from it.                          *)
Share == IF args.distribution = "shard" THEN Rate ELSE split_rps

-------------------------------------------------------------------------------
Running == {w \in Planned : proc[w] = "running"}

\* Mutant: a future is pending until there is a summary.
Unfinished == {w \in Planned : proc[w] # "finished"}

(* The workers whose futures are pending.                                  *)
Pending == {w \in Planned : proc[w] \in {"starting", "waiting", "running"}}

Failed == {w \in Planned : proc[w] \in {"raised", "killed", "broken"}}

Steps == {"starting", "waiting", "running", "finished", "raised", "killed", "broken"}

Windows == 0 .. MaxTime

TypeOK ==
  /\ args \in Scenarios
  /\ now \in 0 .. MaxTime
  /\ proc \in [Workers -> Steps]
  /\ runStart \in [Workers -> Nat]
  /\ lateness \in [Workers -> 0 .. MaxTime]
  /\ served \in [Workers -> [Targets -> SUBSET (0 .. MaxTime)]]
  /\ ended \in [Workers -> 0 .. MaxTime]
  /\ collector \in 0 .. args.workers
  /\ collected \subseteq Planned /\ failures \subseteq Planned
  /\ DOMAIN results \subseteq Targets

Init ==
  /\ args \in Scenarios
  /\ now = 0
  /\ proc = [w \in Workers |-> "starting"]
  /\ runStart = [w \in Workers |-> 0] /\ lateness = [w \in Workers |-> 0]
  /\ served = [w \in Workers |-> [t \in Targets |-> {}]]
  /\ ended = [w \in Workers |-> 0]
  /\ collector = 0 /\ collected = {} /\ failures = {}
  /\ results = <<>>

-------------------------------------------------------------------------------
(* A worker. *)

\* Mutant: the offsets of a worker count from its own start.
OwnOrigin == now

Origin == epoch

Lateness == IF now < epoch THEN 0 ELSE now - epoch

StartOrWait == IF now < epoch THEN "waiting" ELSE "running"

(* It is past its warm-up: it waits for the epoch, or is late.             *)
Ready(w) ==
  /\ w \in Planned /\ proc[w] = "starting"
  /\ proc' = [proc EXCEPT ![w] = StartOrWait]
  /\ runStart' = [runStart EXCEPT ![w] = Origin]
  /\ lateness' = [lateness EXCEPT ![w] = Lateness]
  /\ UNCHANGED <<args, now, served, ended, collectorVars>>

(* The barrier; the sleep may overshoot.                                   *)
Release(w) ==
  /\ w \in Planned /\ proc[w] = "waiting" /\ now >= epoch
  /\ proc' = [proc EXCEPT ![w] = "running"]
  /\ lateness' = [lateness EXCEPT ![w] = Lateness]
  /\ UNCHANGED <<args, now, runStart, served, ended, collectorVars>>

(* A request to a target completes.                                        *)
Serve(w, t) ==
  /\ w \in Running /\ t \in Assigned(w)
  /\ now \notin served[w][t] /\ Cardinality(served[w][t]) < MaxRequests
  /\ served' = [served EXCEPT ![w][t] = @ \cup {now}]
  /\ UNCHANGED <<args, now, proc, runStart, lateness, ended, collectorVars>>

(* The deadline is absolute: a late worker runs shorter.                   *)
Finish(w) ==
  /\ w \in Running /\ now >= epoch + Duration
  /\ proc' = [proc EXCEPT ![w] = "finished"]
  /\ ended' = [ended EXCEPT ![w] = now]
  /\ UNCHANGED <<args, now, runStart, lateness, served, collectorVars>>

(* One of its targets raises, which fails the gather of all of them.       *)
Raise(w) ==
  /\ w \in Pending
  /\ proc' = [proc EXCEPT ![w] = "raised"]
  /\ UNCHANGED <<args, now, runStart, lateness, served, ended, collectorVars>>

AfterKilled(w) ==
  [v \in Workers |-> IF v = w THEN "killed"
                     ELSE IF v \in Pending THEN "broken" ELSE proc[v]]

(* It is killed (out of memory, a crash of the interpreter).               *)
Kill(w) ==
  /\ w \in Pending
  /\ proc' = AfterKilled(w)
  /\ UNCHANGED <<args, now, runStart, lateness, served, ended, collectorVars>>

-------------------------------------------------------------------------------
(* The parent. *)

\* Mutant: the first failure ends the collecting.
NextAfterFailure(w) == IF proc[w] = "finished" THEN w + 1 ELSE args.workers

NextFuture(w) == w + 1

(* future.result(), in the order of submission.                            *)
Collect ==
  LET w == collector
  IN /\ w \in Workers
     /\ w \in Planned => w \notin Pending
     /\ collector' = NextFuture(w)
     /\ collected' = IF w \in Planned /\ proc[w] = "finished"
                     THEN collected \cup {w} ELSE collected
     /\ failures' = IF w \in Failed THEN failures \cup {w} ELSE failures
     /\ UNCHANGED <<args, now, workerVars, results>>

(* The offsets in a worker's summary of a target.                          *)
Offsets(w, t) == {s - runStart[w] : s \in served[w][t]}

(* merge_summaries: rates add up, windows are aligned by index, the run    *)
(* lasts as long as its last worker, and is as late as its latest.         *)
Merged(t, group) ==
  [workers |-> group,
   failures |-> failures,
   target_rps |-> IF args.paced THEN Cardinality(group) * Share ELSE 0,
   duration |-> Max({ended[w] - runStart[w] : w \in group}),
   start_offset |-> Max({lateness[w] : w \in group}),
   windows |-> [k \in Windows |-> Cardinality({w \in group : k \in Offsets(w, t)})]]

(* Targets without a summary have no result; without any summary the run   *)
(* raises.                                                                 *)
Merge ==
  /\ collector = args.workers /\ results = <<>> /\ collected # {}
  /\ results' =
       [t \in UNION {Assigned(w) : w \in collected} |->
          Merged(t, {w \in collected : t \in Assigned(w)})]
  /\ UNCHANGED <<args, now, workerVars, collector, collected, failures>>

Tick ==
  /\ now < MaxTime
  /\ now' = now + 1
  /\ UNCHANGED <<args, workerVars, collectorVars>>

-------------------------------------------------------------------------------
Worker(w) == Ready(w) \/ Release(w) \/ Finish(w)

Next ==
  \/ \E w \in Workers :
       Worker(w) \/ Raise(w) \/ Kill(w) \/ \E t \in Targets : Serve(w, t)
  \/ Collect \/ Merge \/ Tick

Spec == Init /\ [][Next]_vars

(* Time passes, a worker gets on with its run, and the parent collects.    *)
Fairness ==
  /\ WF_vars(Tick) /\ WF_vars(Collect \/ Merge)
  /\ \A w \in UNION {0 .. a.workers - 1 : a \in Scenarios} :
       WF_vars(w \in Workers /\ Worker(w))

FairSpec == Spec /\ Fairness

-------------------------------------------------------------------------------
(* Properties. *)

Done == results # <<>>

(* No request is issued before the shared epoch.                           *)
BarrierHolds == \A w \in Planned, t \in Targets : \A s \in served[w][t] : s >= epoch

(* "the merged summary reports 400" (http-load-test.md:136): a target       *)
(* none of whose workers failed was offered the rate that was asked for,   *)
(* split over several workers or not.                                      *)
OfferedAsAsked ==
  Done /\ args.paced =>
    \A t \in DOMAIN results :
      {w \in Planned : t \in Assigned(w)} \subseteq collected
        => results[t].target_rps = Rate

(* Window k of a merged summary is the same stretch of time for every      *)
(* worker, also for one that started late (472-477).                       *)
TimelineAligned ==
  Done => \A t \in DOMAIN results :
    LET r == results[t]
    IN \A k \in Windows :
         /\ r.windows[k] =
              Cardinality({w \in r.workers : epoch + k \in served[w][t]})
         /\ r.windows[k] # 0 => k <= r.duration

(* Every worker that was started is accounted for in every result: merged, *)
(* or listed as a failure; and a target without a result had a failed      *)
(* worker (load lost is never silent).                                     *)
EveryWorkerAccountedFor ==
  Done => \A t \in Targets :
    IF t \in DOMAIN results
    THEN /\ results[t].workers = {w \in Planned \ Failed : t \in Assigned(w)}
         /\ results[t].failures = Failed
    ELSE \E w \in failures : t \in Assigned(w)

(* No load is lost or early: the barrier, and the accounts of the workers. *)
NothingIsLost == TypeOK /\ BarrierHolds /\ EveryWorkerAccountedFor

(* The parent comes to an end, with results or an error.                   *)
Ends == <>(Done \/ (collector = args.workers /\ collected = {}))

===============================================================================
