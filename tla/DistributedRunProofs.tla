------------------------- MODULE DistributedRunProofs -------------------------
(***************************************************************************)
(* That the merged results of a distributed run are right for any number   *)
(* of workers and targets, replicated or dealt, whoever is late, raises or *)
(* is killed: no load is early or lost, the rate is the one asked for, and *)
(* a window is the same stretch of time for every worker.                  *)
(*                                                                         *)
(* What is merged must not change afterwards: a future that was collected  *)
(* has ended, and a worker that has ended is not touched by anything, the  *)
(* break of the executor included.                                         *)
(*                                                                         *)
(* At the end, of LoadReport, which shares no variable with DistributedRun: *)
(* that the payload files merged by hand, in however many steps, are of     *)
(* runs that belong together, that a merged summary is exact and its        *)
(* percentiles within a bucket, and that a green exit is earned.            *)
(***************************************************************************)
EXTENDS DistributedRun, LoadReport, FiniteSetTheorems, WellFoundedInduction, TLAPS

(* The offsets of a worker count from the epoch once it is past its        *)
(* warm-up, and it has served between the epoch and its end.               *)
Clocks ==
  \A w \in Workers :
    /\ proc[w] \in {"waiting", "running", "finished"} => runStart[w] = epoch
    /\ proc[w] \in {"running", "finished"} => epoch <= now
    /\ proc[w] = "finished" => epoch <= ended[w]
    /\ \A t \in Targets : \A s \in served[w][t] :
         epoch <= s /\ s <= now /\ (proc[w] = "finished" => s <= ended[w])

(* The futures before the collector's have ended, and are accounted for.   *)
Collection ==
  /\ \A w \in Planned : w < collector => w \notin Pending
  /\ collected = {w \in Planned : w < collector /\ proc[w] = "finished"}
  /\ failures = {w \in Failed : w < collector}

MergedNow ==
  [t \in UNION {Assigned(w) : w \in collected} |->
     Merged(t, {w \in collected : t \in Assigned(w)})]

(* The results are what merging would give now.                            *)
Merging == Done => collector = args.workers /\ collected # {} /\ results = MergedNow

IInv == TypeOK /\ Clocks /\ Collection /\ Merging
-------------------------------------------------------------------------------
LEMMA LeastNatural ==
  ASSUME NEW T, T \subseteq Nat, T # {}
  PROVE  \E x \in T : \A y \in T : x <= y
<1>1. PICK x \in T : \A y \in T : ~ (<<y, x>> \in OpToRel(<, Nat))
  BY NatLessThanWellFounded, WFMin
<1>2. \A y \in T : ~ (y < x)
  BY <1>1 DEF OpToRel
<1>3. QED
  BY <1>2

(* Max, of a set of natural numbers with a bound.                          *)
LEMMA MaxOfBounded ==
  ASSUME NEW n \in Nat, NEW S, S \subseteq 0 .. n, S # {}
  PROVE  Max(S) \in S /\ \A y \in S : y <= Max(S)
<1>. DEFINE T == {n - x : x \in S}
<1>1. \A x \in S : x \in Nat /\ n - x \in Nat
  OBVIOUS
<1>2. T \subseteq Nat /\ T # {}
  BY <1>1
<1>3. PICK m \in T : \A y \in T : m <= y
  <2>. HIDE DEF T
  <2>. QED
    BY <1>2, LeastNatural
<1>4. PICK x \in S : m = n - x
  BY <1>3
<1>5. \A y \in S : n - x <= n - y
  BY <1>3, <1>4
<1>6. \A y \in S : x >= y
  BY <1>1, <1>5
<1>7. QED
  BY <1>6 DEF Max

LEMMA DivisionFact ==
  ASSUME NEW r \in Nat, NEW k \in Nat \ {0}, r % k = 0
  PROVE  k * (r \div k) = r /\ r \div k \in Nat
OBVIOUS

LEMMA RemainderFact ==
  ASSUME NEW r \in Nat, NEW k \in Nat \ {0}
  PROVE  r % k \in 0 .. k - 1
OBVIOUS

LEMMA ArgumentFacts ==
  ASSUME args \in Scenarios
  PROVE  /\ args.workers \in Nat \ {0} /\ args.targets \in Nat \ {0}
         /\ args.distribution \in {"replicate", "shard"}
         /\ Rate \in Nat /\ Rate % args.workers = 0
         /\ epoch \in Nat /\ Duration \in Nat /\ MaxTime \in Nat
         /\ IsFiniteSet(Workers) /\ Cardinality(Workers) = args.workers
         /\ Workers \subseteq Nat /\ Planned \subseteq Workers
<1>1. args \in Arguments
  BY ScenariosAssumption
<1>2. args.workers \in Nat \ {0} /\ args.targets \in Nat \ {0}
      /\ args.distribution \in {"replicate", "shard"}
  BY <1>1 DEF Arguments, TargetDistribution
<1>3. Rate % args.workers = 0
  BY RateAssumption
<1>4. Rate \in Nat /\ epoch \in Nat /\ Duration \in Nat /\ MaxTime \in Nat
  BY NumbersAssumption DEF epoch
<1>5. IsFiniteSet(Workers) /\ Cardinality(Workers) = args.workers
  <2>1. 0 \in Int /\ args.workers - 1 \in Int /\ ~ (0 > args.workers - 1)
        /\ (args.workers - 1) - 0 + 1 = args.workers
    BY <1>2
  <2>2. QED
    BY <2>1, FS_Interval DEF Workers
<1>6. Workers \subseteq Nat /\ Planned \subseteq Workers
  BY <1>2 DEF Workers, Planned
<1>7. QED
  BY <1>2, <1>3, <1>4, <1>5, <1>6

(* Every target is some planned worker's.                                  *)
LEMMA EveryTargetIsAssigned ==
  ASSUME args \in Scenarios, NEW t \in Targets
  PROVE  \E w \in Planned : t \in Assigned(w)
<1>1. CASE args.distribution = "replicate"
  <2>1. 0 \in Workers
    BY ArgumentFacts DEF Workers
  <2>2. t \in Assigned(0)
    BY <1>1 DEF Assigned
  <2>3. QED
    BY <2>1, <2>2 DEF Planned
<1>2. CASE args.distribution # "replicate"
  <2>1. t \in Nat
    BY ArgumentFacts DEF Targets
  <2>2. t % args.workers \in Workers
    BY <2>1, ArgumentFacts, RemainderFact DEF Workers
  <2>3. t \in Assigned(t % args.workers)
    BY <1>2 DEF Assigned, Dealt
  <2>4. QED
    BY <2>2, <2>3 DEF Planned
<1>3. QED
  BY <1>1, <1>2
-------------------------------------------------------------------------------
(* Where workers only get on that have not ended, nothing that was         *)
(* collected or merged changes.                                            *)
LEMMA EndedStay ==
  ASSUME IInv, UNCHANGED <<args, collectorVars>>,
         \A w \in Planned \ Pending :
           /\ proc'[w] = proc[w] /\ runStart'[w] = runStart[w]
           /\ lateness'[w] = lateness[w] /\ ended'[w] = ended[w]
           /\ \A t \in Targets : served'[w][t] = served[w][t]
  PROVE  Collection' /\ Merging'
<1>1. TypeOK /\ Collection /\ Merging
  BY DEF IInv
<1>2. /\ Planned' = Planned /\ Workers' = Workers /\ Targets' = Targets
      /\ \A w \in Workers : Assigned(w)' = Assigned(w)
      /\ UNCHANGED <<args, collector, collected, failures, results>>
  <2>1. UNCHANGED <<args, collector, collected, failures, results>>
    BY DEF collectorVars
  <2>2. QED
    BY <2>1 DEF Planned, Workers, Targets, Assigned, Dealt
<1>3. \A w \in Planned \ Pending : w \notin Pending' /\ (w \in Failed <=> w \in Failed')
  BY <1>2 DEF Pending, Failed
<1>4. Collection'
  <2>1. \A w \in Planned : w < collector => w \notin Pending'
    BY <1>1, <1>3 DEF Collection
  <2>2. collected = {w \in Planned : w < collector /\ proc'[w] = "finished"}
    BY <1>1, <1>2 DEF Collection
  <2>3. failures = {w \in Failed' : w < collector}
    <3>1. Failed \subseteq Planned /\ Failed' \subseteq Planned
      BY <1>2 DEF Failed
    <3>2. failures = {w \in Failed : w < collector}
      BY <1>1 DEF Collection
    <3>3. \A w \in Planned : w < collector => (w \in Failed <=> w \in Failed')
      BY <1>1, <1>3 DEF Collection
    <3>4. QED
      BY <3>1, <3>2, <3>3
  <2>4. QED
    BY <1>2, <2>1, <2>2, <2>3 DEF Collection
<1>5. ASSUME NEW t \in Targets, NEW G, G \subseteq collected
      PROVE  Merged(t, G)' = Merged(t, G)
  <2>1. \A w \in G : w \in Planned \ Pending
    BY <1>1, <1>5 DEF Collection
  <2>2. \A w \in G : Offsets(w, t)' = Offsets(w, t)
    BY <2>1, <1>5 DEF Offsets
  <2>3. {ended'[w] - runStart'[w] : w \in G} = {ended[w] - runStart[w] : w \in G}
    BY <2>1
  <2>4. {lateness'[w] : w \in G} = {lateness[w] : w \in G}
    BY <2>1
  <2>5. \A k \in Windows : {w \in G : k \in Offsets(w, t)'} = {w \in G : k \in Offsets(w, t)}
    BY <2>2
  <2>6. [k \in Windows |-> Cardinality({w \in G : k \in Offsets(w, t)'})]
          = [k \in Windows |-> Cardinality({w \in G : k \in Offsets(w, t)})]
    BY <2>5
  <2>7. Share' = Share
    BY <1>2 DEF Share, split_rps
  <2>8. QED
    BY <1>2, <2>3, <2>4, <2>6, <2>7 DEF Merged, Windows
<1>6. MergedNow' = MergedNow
  <2>1. UNION {Assigned(w)' : w \in collected} = UNION {Assigned(w) : w \in collected}
    <3>1. \A w \in collected : w \in Workers
      BY <1>1 DEF Collection, Planned
    <3>2. QED
      BY <1>2, <3>1
  <2>2. ASSUME NEW t \in UNION {Assigned(w) : w \in collected}
        PROVE  Merged(t, {w \in collected : t \in Assigned(w)})'
                 = Merged(t, {w \in collected : t \in Assigned(w)})
    <3>1. t \in Targets
      BY DEF Assigned, Dealt
    <3>. DEFINE G == {w \in collected : t \in Assigned(w)}
    <3>2. PICK H : H = G
      OBVIOUS
    <3>3. {w \in collected' : t \in Assigned(w)'} = H
      <4>1. \A w \in collected : w \in Workers
        BY <1>1 DEF Collection, Planned
      <4>2. QED
        BY <1>2, <3>2, <4>1
    <3>4. Merged(t, H)' = Merged(t, H)
      BY <1>5, <3>1, <3>2
    <3>5. QED
      BY <3>2, <3>3, <3>4
  <2>3. QED
    BY <1>2, <2>1, <2>2 DEF MergedNow
<1>7. Merging'
  BY <1>1, <1>2, <1>6 DEF Merging, Done
<1>8. QED
  BY <1>4, <1>7
-------------------------------------------------------------------------------
LEMMA InitEstablishes == Init => IInv
<1>. SUFFICES ASSUME Init
              PROVE  IInv
  OBVIOUS
<1>1. /\ args \in Scenarios /\ now = 0 /\ proc = [w \in Workers |-> "starting"]
      /\ runStart = [w \in Workers |-> 0] /\ lateness = [w \in Workers |-> 0]
      /\ served = [w \in Workers |-> [t \in Targets |-> {}]]
      /\ ended = [w \in Workers |-> 0]
      /\ collector = 0 /\ collected = {} /\ failures = {} /\ results = <<>>
  BY DEF Init
<1>2. MaxTime \in Nat /\ args.workers \in Nat /\ Workers \subseteq Nat
  BY <1>1, ArgumentFacts
<1>3. 0 \in 0 .. MaxTime /\ 0 \in 0 .. args.workers
  BY <1>2
<1>4. TypeOK
  <2>1. proc \in [Workers -> Steps]
    BY <1>1 DEF Steps
  <2>2. /\ runStart \in [Workers -> Nat] /\ lateness \in [Workers -> 0 .. MaxTime]
        /\ ended \in [Workers -> 0 .. MaxTime]
    BY <1>1, <1>3
  <2>3. served \in [Workers -> [Targets -> SUBSET (0 .. MaxTime)]]
    BY <1>1
  <2>4. DOMAIN results \subseteq Targets
    <3>1. DOMAIN <<>> = {}
      OBVIOUS
    <3>2. QED
      BY <1>1, <3>1
  <2>5. now \in 0 .. MaxTime /\ collector \in 0 .. args.workers
    BY <1>1, <1>3
  <2>6. QED
    BY <1>1, <2>1, <2>2, <2>3, <2>4, <2>5 DEF TypeOK
<1>5. Clocks
  BY <1>1 DEF Clocks
<1>6. Collection
  <2>1. \A w \in Planned : ~ (w < collector)
    BY <1>1, <1>2 DEF Planned
  <2>2. Failed \subseteq Planned
    BY DEF Failed
  <2>3. QED
    BY <1>1, <2>1, <2>2 DEF Collection
<1>7. Merging
  BY <1>1 DEF Merging, Done
<1>8. QED
  BY <1>4, <1>5, <1>6, <1>7 DEF IInv

(* What a worker's step leaves alone, and what one that is pending needs.  *)
LEMMA WorkerPreserves ==
  ASSUME IInv, NEW w \in Workers, w \in Pending,
         UNCHANGED <<args, now, collectorVars>>,
         NEW s \in Steps, proc' = [proc EXCEPT ![w] = s],
         runStart' \in [Workers -> Nat], lateness' \in [Workers -> 0 .. MaxTime],
         ended' \in [Workers -> 0 .. MaxTime],
         served' \in [Workers -> [Targets -> SUBSET (0 .. MaxTime)]],
         \A v \in Workers \ {w} :
           /\ runStart'[v] = runStart[v] /\ lateness'[v] = lateness[v]
           /\ ended'[v] = ended[v] /\ served'[v] = served[v],
         s \in {"waiting", "running", "finished"} => runStart'[w] = epoch,
         s \in {"running", "finished"} => epoch <= now,
         s = "finished" => epoch <= ended'[w],
         \A t \in Targets : \A i \in served'[w][t] :
           epoch <= i /\ i <= now /\ (s = "finished" => i <= ended'[w])
  PROVE  IInv'
<1>1. TypeOK /\ Clocks
  BY DEF IInv
<1>2. /\ Planned' = Planned /\ Workers' = Workers /\ Targets' = Targets
      /\ UNCHANGED <<args, now, collector, collected, failures, results>>
  BY DEF Planned, Workers, Targets, Assigned, Dealt, collectorVars
<1>3. /\ proc' \in [Workers -> Steps] /\ proc'[w] = s
      /\ \A v \in Workers \ {w} : proc'[v] = proc[v]
  BY <1>1 DEF TypeOK
<1>4. TypeOK'
  BY <1>1, <1>2, <1>3 DEF TypeOK
<1>5. Clocks'
  <2>1. epoch' = epoch
    BY DEF epoch
  <2>2. ASSUME NEW v \in Workers
        PROVE  /\ proc'[v] \in {"waiting", "running", "finished"} => runStart'[v] = epoch
               /\ proc'[v] \in {"running", "finished"} => epoch <= now
               /\ proc'[v] = "finished" => epoch <= ended'[v]
               /\ \A t \in Targets : \A i \in served'[v][t] :
                    epoch <= i /\ i <= now /\ (proc'[v] = "finished" => i <= ended'[v])
    <3>1. CASE v = w
      BY <1>3, <3>1
    <3>2. CASE v # w
      BY <1>1, <1>3, <3>2 DEF Clocks
    <3>3. QED
      BY <3>1, <3>2
  <2>3. QED
    BY <1>2, <2>1, <2>2 DEF Clocks
<1>6. Collection' /\ Merging'
  <2>1. \A v \in Planned \ Pending : v \in Workers /\ v # w
    BY DEF Planned
  <2>2. \A v \in Planned \ Pending :
          /\ proc'[v] = proc[v] /\ runStart'[v] = runStart[v]
          /\ lateness'[v] = lateness[v] /\ ended'[v] = ended[v]
          /\ \A t \in Targets : served'[v][t] = served[v][t]
    BY <1>3, <2>1
  <2>3. QED
    BY <2>2, EndedStay
<1>7. QED
  BY <1>4, <1>5, <1>6 DEF IInv

LEMMA WorkerStep ==
  ASSUME IInv, NEW w \in Workers,
         \/ Ready(w) \/ Release(w) \/ Finish(w) \/ Raise(w)
         \/ \E t \in Targets : Serve(w, t)
  PROVE  IInv'
<1>1. /\ TypeOK /\ Clocks
      /\ proc \in [Workers -> Steps] /\ runStart \in [Workers -> Nat]
      /\ lateness \in [Workers -> 0 .. MaxTime] /\ ended \in [Workers -> 0 .. MaxTime]
      /\ served \in [Workers -> [Targets -> SUBSET (0 .. MaxTime)]]
      /\ now \in 0 .. MaxTime
  BY DEF IInv, TypeOK
<1>2. epoch \in Nat /\ now \in Nat /\ MaxTime \in Nat
  BY <1>1, NumbersAssumption DEF epoch
<1>3. Lateness \in 0 .. MaxTime
  BY <1>1, <1>2 DEF Lateness
<1>4. \A t \in Targets : \A i \in served[w][t] : epoch <= i /\ i <= now
  BY <1>1 DEF Clocks
<1>5. CASE Ready(w)
  <2>1. /\ w \in Pending /\ StartOrWait \in Steps
        /\ StartOrWait # "finished" /\ (StartOrWait = "running" => epoch <= now)
    BY <1>2, <1>5 DEF Ready, Pending, StartOrWait, Steps
  <2>2. /\ proc' = [proc EXCEPT ![w] = StartOrWait]
        /\ runStart' = [runStart EXCEPT ![w] = epoch]
        /\ lateness' = [lateness EXCEPT ![w] = Lateness]
        /\ UNCHANGED <<args, now, served, ended, collectorVars>>
    BY <1>5 DEF Ready, Origin
  <2>3. /\ runStart' \in [Workers -> Nat] /\ runStart'[w] = epoch
        /\ lateness' \in [Workers -> 0 .. MaxTime]
        /\ \A v \in Workers \ {w} : runStart'[v] = runStart[v] /\ lateness'[v] = lateness[v]
    BY <1>1, <1>2, <1>3, <2>2
  <2>4. PICK s \in Steps : s = StartOrWait
    BY <2>1
  <2>5. QED
    BY <1>1, <1>4, <2>1, <2>2, <2>3, <2>4, WorkerPreserves
<1>6. CASE Release(w)
  <2>1. w \in Pending /\ "running" \in Steps /\ proc[w] = "waiting" /\ epoch <= now
    BY <1>2, <1>6 DEF Release, Pending, Steps
  <2>2. /\ proc' = [proc EXCEPT ![w] = "running"]
        /\ lateness' = [lateness EXCEPT ![w] = Lateness]
        /\ UNCHANGED <<args, now, runStart, served, ended, collectorVars>>
    BY <1>6 DEF Release
  <2>3. /\ lateness' \in [Workers -> 0 .. MaxTime] /\ runStart[w] = epoch
        /\ \A v \in Workers \ {w} : lateness'[v] = lateness[v]
    BY <1>1, <1>3, <2>1, <2>2 DEF Clocks
  <2>4. \A t \in Targets : \A i \in served'[w][t] : epoch <= i /\ i <= now
    BY <1>4, <2>2
  <2>5. /\ \A v \in Workers \ {w} :
             /\ runStart'[v] = runStart[v] /\ lateness'[v] = lateness[v]
             /\ ended'[v] = ended[v] /\ served'[v] = served[v]
        /\ runStart'[w] = epoch /\ "running" # "finished"
    BY <2>2, <2>3
  <2>6. /\ runStart' \in [Workers -> Nat] /\ ended' \in [Workers -> 0 .. MaxTime]
        /\ served' \in [Workers -> [Targets -> SUBSET (0 .. MaxTime)]]
    BY <1>1, <2>2
  <2>7. PICK s \in Steps : s = "running"
    BY <2>1
  <2>8. proc' = [proc EXCEPT ![w] = s] /\ s # "finished"
    BY <2>2, <2>7
  <2>9. UNCHANGED <<args, now, collectorVars>>
    BY <2>2
  <2>10. QED
    BY <2>1, <2>3, <2>4, <2>5, <2>6, <2>8, <2>9, WorkerPreserves
<1>7. CASE Finish(w)
  <2>1. w \in Pending /\ "finished" \in Steps /\ proc[w] = "running"
    BY <1>7 DEF Finish, Running, Pending, Steps
  <2>2. /\ proc' = [proc EXCEPT ![w] = "finished"]
        /\ ended' = [ended EXCEPT ![w] = now]
        /\ UNCHANGED <<args, now, runStart, lateness, served, collectorVars>>
    BY <1>7 DEF Finish
  <2>3. /\ ended' \in [Workers -> 0 .. MaxTime] /\ ended'[w] = now
        /\ runStart[w] = epoch /\ epoch <= now
        /\ \A v \in Workers \ {w} : ended'[v] = ended[v]
    BY <1>1, <2>1, <2>2 DEF Clocks
  <2>4. \A t \in Targets : \A i \in served'[w][t] :
          epoch <= i /\ i <= now /\ i <= ended'[w]
    BY <1>4, <2>2, <2>3
  <2>5. \A v \in Workers \ {w} :
          /\ runStart'[v] = runStart[v] /\ lateness'[v] = lateness[v]
          /\ ended'[v] = ended[v] /\ served'[v] = served[v]
    BY <2>2, <2>3
  <2>6. QED
    BY <1>1, <2>1, <2>2, <2>3, <2>4, <2>5, WorkerPreserves
<1>8. CASE Raise(w)
  <2>1. w \in Pending /\ "raised" \in Steps
    BY <1>8 DEF Raise, Steps
  <2>2. /\ proc' = [proc EXCEPT ![w] = "raised"]
        /\ UNCHANGED <<args, now, runStart, lateness, served, ended, collectorVars>>
    BY <1>8 DEF Raise
  <2>3. QED
    BY <1>1, <1>4, <2>1, <2>2, WorkerPreserves
<1>9. ASSUME NEW t \in Targets, Serve(w, t)
      PROVE  IInv'
  <2>1. w \in Pending /\ "running" \in Steps /\ proc[w] = "running"
    BY <1>9 DEF Serve, Running, Pending, Steps
  <2>2. /\ served' = [served EXCEPT ![w][t] = @ \cup {now}]
        /\ UNCHANGED <<args, now, proc, runStart, lateness, ended, collectorVars>>
    BY <1>9 DEF Serve
  <2>3. proc' = [proc EXCEPT ![w] = "running"]
    BY <1>1, <2>1, <2>2
  <2>4. /\ served' \in [Workers -> [Targets -> SUBSET (0 .. MaxTime)]]
        /\ \A v \in Workers \ {w} : served'[v] = served[v]
        /\ \A u \in Targets : served'[w][u] \subseteq served[w][u] \cup {now}
    BY <1>1, <2>2
  <2>5. runStart[w] = epoch /\ epoch <= now
    BY <1>1, <2>1 DEF Clocks
  <2>6. \A u \in Targets : \A i \in served'[w][u] : epoch <= i /\ i <= now
    BY <1>2, <1>4, <2>4, <2>5
  <2>7. QED
    BY <1>1, <2>1, <2>2, <2>3, <2>4, <2>5, <2>6, WorkerPreserves
<1>10. QED
  BY <1>5, <1>6, <1>7, <1>8, <1>9

(* A process that dies takes those with it that are pending, and no other. *)
LEMMA KillPreserves ==
  ASSUME IInv, NEW w \in Workers, Kill(w)
  PROVE  IInv'
<1>1. TypeOK /\ Clocks
  BY DEF IInv
<1>2. /\ w \in Pending
      /\ proc' = [v \in Workers |-> IF v = w THEN "killed"
                                    ELSE IF v \in Pending THEN "broken" ELSE proc[v]]
      /\ UNCHANGED <<args, now, runStart, lateness, served, ended, collectorVars>>
  BY DEF Kill, AfterKilled
<1>3. /\ Planned' = Planned /\ Workers' = Workers /\ Targets' = Targets /\ epoch' = epoch
      /\ UNCHANGED <<args, now, collector, collected, failures, results>>
  BY <1>2 DEF Planned, Workers, Targets, Assigned, Dealt, collectorVars, epoch
<1>4. proc \in [Workers -> Steps]
  BY <1>1 DEF TypeOK
<1>5. \A v \in Workers : proc'[v] \in Steps /\ proc'[v] \in {"killed", "broken", proc[v]}
  BY <1>2, <1>4 DEF Steps
<1>6. proc' \in [Workers -> Steps]
  BY <1>2, <1>5
<1>7. TypeOK'
  BY <1>1, <1>2, <1>3, <1>6 DEF TypeOK
<1>8. Clocks'
  BY <1>1, <1>2, <1>3, <1>5 DEF Clocks
<1>9. Collection' /\ Merging'
  <2>1. \A v \in Planned \ Pending : proc'[v] = proc[v]
    BY <1>2 DEF Planned
  <2>2. QED
    BY <1>2, <2>1, EndedStay
<1>10. QED
  BY <1>7, <1>8, <1>9 DEF IInv
LEMMA CollectPreserves ==
  ASSUME IInv, Collect
  PROVE  IInv'
<1>1. TypeOK /\ Clocks /\ Collection /\ Merging
  BY DEF IInv
<1>2. /\ collector \in Workers /\ (collector \in Planned => collector \notin Pending)
      /\ collector' = collector + 1
      /\ collected' = IF collector \in Planned /\ proc[collector] = "finished"
                      THEN collected \cup {collector} ELSE collected
      /\ failures' = IF collector \in Failed THEN failures \cup {collector} ELSE failures
      /\ UNCHANGED <<args, now, proc, runStart, lateness, served, ended, results>>
  BY DEF Collect, NextFuture, workerVars
<1>3. /\ Planned' = Planned /\ Workers' = Workers /\ Targets' = Targets /\ epoch' = epoch
      /\ Pending' = Pending /\ Failed' = Failed
  BY <1>2 DEF Planned, Workers, Targets, Assigned, Dealt, epoch, Pending, Failed
<1>4. args.workers \in Nat /\ Planned \subseteq Workers /\ Workers \subseteq Nat
  BY <1>1, ArgumentFacts DEF TypeOK
<1>5. collector < args.workers /\ collector' \in 0 .. args.workers
  BY <1>2, <1>4 DEF Workers
<1>6. \A w \in Planned : w < collector' <=> (w < collector \/ w = collector)
  BY <1>2, <1>4
<1>7. Failed \subseteq Planned
  BY DEF Failed
<1>8. TypeOK'
  <2>1. collected' \subseteq Planned /\ failures' \subseteq Planned
    BY <1>1, <1>2, <1>7 DEF TypeOK
  <2>2. QED
    BY <1>1, <1>2, <1>3, <1>5, <2>1 DEF TypeOK
<1>9. Clocks'
  BY <1>1, <1>2, <1>3 DEF Clocks
<1>10. Collection'
  <2>1. \A w \in Planned : w < collector' => w \notin Pending
    BY <1>1, <1>2, <1>6 DEF Collection
  <2>2. collected' = {w \in Planned : w < collector' /\ proc[w] = "finished"}
    BY <1>1, <1>2, <1>6 DEF Collection
  <2>3. failures' = {w \in Failed : w < collector'}
    BY <1>1, <1>2, <1>6, <1>7 DEF Collection
  <2>4. QED
    BY <1>2, <1>3, <2>1, <2>2, <2>3 DEF Collection
<1>11. Merging'
  <2>1. ~ Done
    BY <1>1, <1>2, <1>4, <1>5 DEF Merging
  <2>2. QED
    BY <1>2, <2>1 DEF Merging, Done
<1>12. QED
  BY <1>8, <1>9, <1>10, <1>11 DEF IInv

(* When no worker moves and none is collected, merging gives the same.     *)
LEMMA SameMerge ==
  ASSUME UNCHANGED <<args, proc, runStart, lateness, served, ended, collector,
                     collected, failures>>
  PROVE  /\ MergedNow' = MergedNow
         /\ TypeOK /\ now' \in 0 .. MaxTime /\ DOMAIN results' \subseteq Targets => TypeOK'
         /\ Collection => Collection'
<1>1. /\ Planned' = Planned /\ Workers' = Workers /\ Targets' = Targets
      /\ Pending' = Pending /\ Failed' = Failed
  BY DEF Planned, Workers, Targets, Assigned, Dealt, Pending, Failed
<1>2. MergedNow' = MergedNow
  BY DEF MergedNow, Merged, Assigned, Dealt, Targets, Share, split_rps, Offsets, Windows
<1>3. TypeOK /\ now' \in 0 .. MaxTime /\ DOMAIN results' \subseteq Targets => TypeOK'
  BY <1>1 DEF TypeOK
<1>4. Collection => Collection'
  BY <1>1 DEF Collection
<1>5. QED
  BY <1>2, <1>3, <1>4

LEMMA MergePreserves ==
  ASSUME IInv, Merge
  PROVE  IInv'
<1>1. TypeOK /\ Clocks /\ Collection
  BY DEF IInv
<1>2. /\ collector = args.workers /\ collected # {} /\ results' = MergedNow
      /\ UNCHANGED <<args, now, proc, runStart, lateness, served, ended, collector,
                     collected, failures>>
  BY DEF Merge, MergedNow, workerVars
<1>3. DOMAIN results' \subseteq Targets
  BY <1>2 DEF MergedNow, Assigned, Dealt
<1>4. TypeOK' /\ Collection' /\ MergedNow' = MergedNow
  BY <1>1, <1>2, <1>3, SameMerge DEF TypeOK
<1>5. Clocks'
  BY <1>1, <1>2 DEF Clocks, Workers, Targets, epoch
<1>6. Merging'
  BY <1>2, <1>4 DEF Merging
<1>7. QED
  BY <1>4, <1>5, <1>6 DEF IInv

LEMMA RestPreserves ==
  ASSUME IInv, Tick \/ UNCHANGED vars
  PROVE  IInv'
<1>1. TypeOK /\ Clocks /\ Collection /\ Merging
  BY DEF IInv
<1>2. /\ now' \in 0 .. MaxTime /\ now <= now' /\ now \in Nat
      /\ UNCHANGED <<args, proc, runStart, lateness, served, ended, collector,
                     collected, failures, results>>
  BY <1>1, NumbersAssumption DEF Tick, vars, workerVars, collectorVars, TypeOK
<1>3. TypeOK' /\ Collection' /\ MergedNow' = MergedNow
  BY <1>1, <1>2, SameMerge DEF TypeOK
<1>4. Clocks'
  <2>1. /\ Workers' = Workers /\ Targets' = Targets /\ epoch' = epoch /\ epoch \in Nat
    BY <1>2, NumbersAssumption DEF Workers, Targets, epoch
  <2>2. \A w \in Workers, t \in Targets : \A s \in served[w][t] : s \in Nat
    BY <1>1, NumbersAssumption DEF TypeOK
  <2>3. QED
    BY <1>1, <1>2, <2>1, <2>2 DEF Clocks
<1>5. Merging'
  BY <1>1, <1>2, <1>3 DEF Merging, Done
<1>6. QED
  BY <1>3, <1>4, <1>5 DEF IInv

(* The invariant holds throughout, whoever is late, raises or is killed.   *)
THEOREM Invariance == Spec => []IInv
<1>1. IInv /\ [Next]_vars => IInv'
  BY WorkerStep, KillPreserves, CollectPreserves, MergePreserves, RestPreserves
  DEF Next, Worker
<1>2. QED
  BY <1>1, InitEstablishes, PTL DEF Spec
-------------------------------------------------------------------------------
(* No request is issued before the shared epoch, and every worker that was *)
(* started is merged or listed as a failure (run_distributed).             *)
THEOREM LoadIsNeverLost == Spec => []NothingIsLost
<1>1. IInv => NothingIsLost
  <2>. SUFFICES ASSUME IInv
                PROVE  NothingIsLost
    OBVIOUS
  <2>1. TypeOK /\ Clocks /\ Collection /\ Merging
    BY DEF IInv
  <2>2. args.workers \in Nat /\ Planned \subseteq Workers /\ Workers \subseteq Nat
    BY <2>1, ArgumentFacts DEF TypeOK
  <2>3. BarrierHolds
    <3>1. \A w \in Workers, t \in Targets : \A s \in served[w][t] : s \in Nat /\ epoch \in Nat
      BY <2>1, NumbersAssumption DEF TypeOK, epoch
    <3>2. QED
      BY <2>1, <2>2, <3>1 DEF Clocks, BarrierHolds
  <2>4. EveryWorkerAccountedFor
    <3>. SUFFICES ASSUME Done, NEW t \in Targets
                  PROVE  IF t \in DOMAIN results
                         THEN /\ results[t].workers = {w \in Planned \ Failed : t \in Assigned(w)}
                              /\ results[t].failures = Failed
                         ELSE \E w \in failures : t \in Assigned(w)
      BY DEF EveryWorkerAccountedFor
    <3>1. results = MergedNow /\ \A w \in Planned : w < collector
      BY <2>1, <2>2 DEF Merging, Workers
    <3>2. \A w \in Planned : w \notin Pending
      BY <2>1, <3>1 DEF Collection
    <3>3. \A w \in Planned : proc[w] = "finished" <=> w \notin Failed
      BY <2>1, <2>2, <3>2 DEF TypeOK, Steps, Pending, Failed
    <3>4. Failed \subseteq Planned
      BY DEF Failed
    <3>5. collected = Planned \ Failed /\ failures = Failed
      BY <2>1, <3>1, <3>3, <3>4 DEF Collection
    <3>6. CASE t \in DOMAIN results
      <4>1. t \in UNION {Assigned(w) : w \in collected}
        BY <3>1, <3>6 DEF MergedNow
      <4>2. results[t] = Merged(t, {w \in collected : t \in Assigned(w)})
        BY <3>1, <4>1 DEF MergedNow
      <4>3. /\ results[t].workers = {w \in collected : t \in Assigned(w)}
            /\ results[t].failures = failures
        BY <4>2 DEF Merged
      <4>4. QED
        BY <3>5, <3>6, <4>3
    <3>7. CASE t \notin DOMAIN results
      <4>1. PICK w \in Planned : t \in Assigned(w)
        BY <2>1, EveryTargetIsAssigned DEF TypeOK
      <4>2. DOMAIN results = UNION {Assigned(v) : v \in collected}
        BY <3>1 DEF MergedNow
      <4>3. w \notin collected
        BY <3>7, <4>1, <4>2
      <4>4. QED
        BY <3>5, <3>7, <4>1, <4>3
    <3>8. QED
      BY <3>6, <3>7
  <2>5. QED
    BY <2>1, <2>3, <2>4 DEF NothingIsLost
<1>2. QED
  BY <1>1, Invariance, PTL

(* A target none of whose workers failed was offered the rate that was     *)
(* asked for, be it split among all or left to one.                        *)
THEOREM RateIsAsAsked == Spec => []OfferedAsAsked
<1>1. IInv => OfferedAsAsked
  <2>. SUFFICES ASSUME IInv, Done, args.paced, NEW t \in DOMAIN results,
                       {w \in Planned : t \in Assigned(w)} \subseteq collected
                PROVE  results[t].target_rps = Rate
    BY DEF OfferedAsAsked
  <2>. DEFINE group == {w \in collected : t \in Assigned(w)}
  <2>1. /\ TypeOK /\ Collection /\ results = MergedNow /\ args \in Scenarios
        /\ t \in Targets /\ collected \subseteq Planned
    BY DEF IInv, Merging, TypeOK
  <2>2. group = {w \in Planned : t \in Assigned(w)}
    BY <2>1
  <2>3. results[t] = Merged(t, group)
    BY <2>1 DEF MergedNow
  <2>4. results[t].target_rps = Cardinality(group) * Share
    BY <2>3 DEF Merged
  <2>5. CASE args.distribution = "shard"
    <3>1. /\ t \in Nat /\ args.workers \in Nat \ {0}
          /\ args.distribution # "replicate" /\ Rate \in Nat
      BY <2>1, <2>5, ArgumentFacts DEF Targets
    <3>2. t % args.workers \in Workers
      BY <3>1, RemainderFact DEF Workers
    <3>3. group = {t % args.workers}
      BY <2>1, <2>2, <3>1, <3>2 DEF Planned, Assigned, Dealt
    <3>4. Cardinality(group) = 1
      BY <3>3, FS_Singleton
    <3>5. Share = Rate
      BY <2>5 DEF Share
    <3>6. QED
      BY <2>4, <3>1, <3>4, <3>5
  <2>6. CASE args.distribution # "shard"
    <3>1. /\ args.distribution = "replicate" /\ args.workers \in Nat \ {0}
          /\ Rate \in Nat /\ Rate % args.workers = 0
          /\ Cardinality(Workers) = args.workers
      BY <2>1, <2>6, ArgumentFacts
    <3>2. group = Workers
      BY <2>1, <2>2, <3>1 DEF Planned, Assigned
    <3>3. Share = Rate \div args.workers
      BY <2>6 DEF Share, split_rps
    <3>4. args.workers * (Rate \div args.workers) = Rate
      BY <3>1, DivisionFact
    <3>5. QED
      BY <2>4, <3>1, <3>2, <3>3, <3>4
  <2>7. QED
    BY <2>5, <2>6
<1>2. QED
  BY <1>1, Invariance, PTL

(* Window k of the merged results of a target counts, for every worker,    *)
(* the requests of the same stretch of time, and lies within its duration. *)
THEOREM TimelinesAlign == Spec => []TimelineAligned
<1>1. IInv => TimelineAligned
  <2>. SUFFICES ASSUME IInv, Done, NEW t \in DOMAIN results, NEW k \in Windows
                PROVE  /\ results[t].windows[k] =
                            Cardinality({w \in results[t].workers : epoch + k \in served[w][t]})
                       /\ results[t].windows[k] # 0 => k <= results[t].duration
    BY DEF TimelineAligned
  <2>. DEFINE group == {w \in collected : t \in Assigned(w)}
              spans == {ended[w] - runStart[w] : w \in group}
  <2>1. /\ TypeOK /\ Clocks /\ Collection /\ results = MergedNow /\ args \in Scenarios
        /\ t \in Targets /\ collected \subseteq Planned /\ Planned \subseteq Workers
    BY ArgumentFacts DEF IInv, Merging, TypeOK
  <2>2. /\ results[t].workers = group /\ results[t].duration = Max(spans)
        /\ results[t].windows
             = [j \in Windows |-> Cardinality({w \in group : j \in Offsets(w, t)})]
    <3>1. results[t] = Merged(t, group)
      BY <2>1 DEF MergedNow
    <3>2. QED
      BY <3>1 DEF Merged
  <2>3. epoch \in Nat /\ MaxTime \in Nat /\ k \in Nat
    BY NumbersAssumption DEF epoch, Windows
  <2>4. \A w \in group : /\ w \in Workers /\ runStart[w] = epoch
                         /\ served[w][t] \subseteq Nat /\ epoch <= now
                         /\ ended[w] \in 0 .. MaxTime /\ epoch <= ended[w]
                         /\ \A s \in served[w][t] : s <= ended[w]
    BY <2>1, <2>3 DEF Collection, Clocks, TypeOK
  <2>5. \A w \in group : k \in Offsets(w, t) <=> epoch + k \in served[w][t]
    <3>1. \A w \in group : Offsets(w, t) = {s - epoch : s \in served[w][t]}
      BY <2>4 DEF Offsets
    <3>2. ASSUME NEW w \in group
          PROVE  k \in Offsets(w, t) <=> epoch + k \in served[w][t]
      <4>1. ASSUME NEW s \in served[w][t]
            PROVE  k = s - epoch <=> s = epoch + k
        BY <2>3, <2>4
      <4>2. QED
        BY <3>1, <4>1, <2>3
    <3>3. QED
      BY <3>2
  <2>6. results[t].windows[k] = Cardinality({w \in group : k \in Offsets(w, t)})
    BY <2>2
  <2>7. {w \in group : k \in Offsets(w, t)} = {w \in group : epoch + k \in served[w][t]}
    BY <2>5
  <2>8. ASSUME results[t].windows[k] # 0
        PROVE  k <= Max(spans)
    <3>1. {w \in group : k \in Offsets(w, t)} # {}
      BY <2>6, <2>8, FS_EmptySet
    <3>2. PICK w \in group : epoch + k \in served[w][t]
      BY <2>5, <3>1
    <3>3. k <= ended[w] - runStart[w]
      BY <2>3, <2>4, <3>2
    <3>4. spans \subseteq 0 .. MaxTime
      <4>1. ASSUME NEW v \in group
            PROVE  ended[v] - runStart[v] \in 0 .. MaxTime
        BY <2>3, <2>4
      <4>2. QED
        BY <4>1
    <3>5. ended[w] - runStart[w] \in spans
      OBVIOUS
    <3>6. ended[w] - runStart[w] <= Max(spans) /\ Max(spans) \in 0 .. MaxTime
      <4>. HIDE DEF spans
      <4>. QED
        BY <2>3, <3>4, <3>5, MaxOfBounded
    <3>7. QED
      BY <2>3, <2>4, <3>3, <3>6
  <2>9. QED
    BY <2>2, <2>6, <2>7, <2>8
<1>2. QED
  BY <1>1, Invariance, PTL

-------------------------------------------------------------------------------
(* The second specification: payload files, LoadReport.                    *)
(*                                                                         *)
(* Sums, means and histograms are folds over finite sets, which take one    *)
(* element after another out of the set.  What holds of a set when it holds *)
(* of the set without any one of its elements holds of all finite sets; so  *)
(* a fold is a function on the subsets, and sums can be cut into parts.     *)

(* What holds of 0 and of every next number holds of them all.             *)
LEMMA UpTo ==
  ASSUME NEW n \in Nat, NEW S, 0 \in S,
         \A k \in 1 .. n : k - 1 \in S => k \in S
  PROVE  0 .. n \subseteq S
<1> DEFINE missed == {k \in 0 .. n : k \notin S}
<1>1. ASSUME missed # {} PROVE FALSE
  <2>1. missed \subseteq Nat OBVIOUS
  <2>2. PICK k \in missed : \A y \in missed : k <= y
    <3> HIDE DEF missed
    <3> QED BY <1>1, <2>1, LeastNatural
  <2>3. k \in 1 .. n /\ k - 1 \notin missed BY <2>2
  <2> QED BY <2>3
<1> QED BY <1>1

(* The subsets of S with at most k elements.                               *)
Sized(S, k) == {s \in SUBSET S : Cardinality(s) <= k}

LEMMA Sizes ==
  ASSUME NEW S, IsFiniteSet(S)
  PROVE  /\ Cardinality(S) \in Nat
         /\ \A s \in SUBSET S : /\ IsFiniteSet(s) /\ Cardinality(s) \in Nat
                                /\ Cardinality(s) <= Cardinality(S)
                                /\ Cardinality(s) = 0 <=> s = {}
                                /\ \A x \in s : Cardinality(s \ {x}) = Cardinality(s) - 1
         /\ SUBSET S \subseteq Sized(S, Cardinality(S))
<1>1. Cardinality(S) \in Nat BY FS_CardinalityType
<1>2. ASSUME NEW s \in SUBSET S
      PROVE  /\ IsFiniteSet(s) /\ Cardinality(s) \in Nat
             /\ Cardinality(s) <= Cardinality(S)
             /\ Cardinality(s) = 0 <=> s = {}
             /\ \A x \in s : Cardinality(s \ {x}) = Cardinality(s) - 1
  <2>1. IsFiniteSet(s) /\ Cardinality(s) <= Cardinality(S) BY FS_Subset
  <2>2. Cardinality(s) \in Nat BY <2>1, FS_CardinalityType
  <2>3. Cardinality(s) = 0 <=> s = {} BY <2>1, FS_EmptySet
  <2>4. \A x \in s : Cardinality(s \ {x}) = Cardinality(s) - 1
    BY <2>1, FS_RemoveElement
  <2> QED BY <2>1, <2>2, <2>3, <2>4
<1> QED BY <1>1, <1>2 DEF Sized

(* What holds of a set as soon as it holds of the set without any element  *)
(* holds of every finite set.                                              *)
LEMMA SetUpTo ==
  ASSUME NEW S, IsFiniteSet(S), NEW T,
         \A s \in SUBSET S : (\A x \in s : s \ {x} \in T) => s \in T
  PROVE  SUBSET S \subseteq T
<1> DEFINE n == Cardinality(S)
           C == {k \in 0 .. n : Sized(S, k) \subseteq T}
<1>1. n \in Nat /\ SUBSET S \subseteq Sized(S, n) BY Sizes
<1>2. 0 \in C
  <2>1. \A s \in Sized(S, 0) : s \in SUBSET S /\ s = {} BY Sizes DEF Sized
  <2>2. \A s \in Sized(S, 0) : s \in T BY <2>1
  <2> QED BY <1>1, <2>2
<1>3. ASSUME NEW k \in 1 .. n, k - 1 \in C PROVE k \in C
  <2>1. ASSUME NEW s \in Sized(S, k) PROVE s \in T
    <3>1. \A x \in s : s \ {x} \in Sized(S, k - 1) BY <1>1, Sizes DEF Sized
    <3>2. s \in SUBSET S BY DEF Sized
    <3> QED BY <1>3, <3>1, <3>2
  <2> QED BY <2>1
<1>4. n \in C
  <2> HIDE DEF C, n
  <2> QED BY <1>1, <1>2, <1>3, UpTo
<1> QED BY <1>1, <1>4

One(s) == CHOOSE x \in s : TRUE

LEMMA OneIsIn == ASSUME NEW s, s # {} PROVE One(s) \in s
BY DEF One

(* The values of a fold of the elements of S, one after the other.         *)
IsFold(S, V, base, step, it) ==
  /\ it \in [SUBSET S -> V]
  /\ \A s \in SUBSET S :
       it[s] = IF s = {} THEN base ELSE step[<<One(s), it[s \ {One(s)}]>>]

IsFoldAt(S, V, base, step, it) ==
  /\ it = [s \in SUBSET S |-> it[s]]
  /\ it[{}] = base
  /\ \A s \in (SUBSET S) \ {{}} : it[s \ {One(s)}] \in V
       => it[s] = step[<<One(s), it[s \ {One(s)}]>>]

(* A fold is well defined: whatever the operation, given as a function of  *)
(* an element and of what came before it.                                  *)
LEMMA FoldExists ==
  ASSUME NEW S, IsFiniteSet(S), NEW V, NEW base \in V, NEW step \in [S \X V -> V]
  PROVE  \E it : IsFold(S, V, base, step, it)
<1> DEFINE n == Cardinality(S)
           Is(it, s) == it[s] = IF s = {} THEN base
                                ELSE step[<<One(s), it[s \ {One(s)}]>>]
           Good == {k \in 0 .. n : \E it \in [Sized(S, k) -> V] :
                      \A s \in Sized(S, k) : Is(it, s)}
<1>1. n \in Nat BY Sizes
<1>2. 0 \in Good
  <2> DEFINE it == [s \in Sized(S, 0) |-> base]
  <2>1. \A s \in Sized(S, 0) : s = {} BY Sizes DEF Sized
  <2>2. it \in [Sized(S, 0) -> V] OBVIOUS
  <2>3. \A s \in Sized(S, 0) : Is(it, s) BY <2>1
  <2> HIDE DEF it, Is
  <2> QED BY <1>1, <2>2, <2>3
<1>3. ASSUME NEW k \in 1 .. n, k - 1 \in Good PROVE k \in Good
  <2>1. PICK g \in [Sized(S, k - 1) -> V] : \A s \in Sized(S, k - 1) : Is(g, s)
    BY <1>3
  <2> DEFINE it == [s \in Sized(S, k) |->
                      IF s \in Sized(S, k - 1) THEN g[s]
                      ELSE step[<<One(s), g[s \ {One(s)}]>>]]
  <2>2. ASSUME NEW s \in Sized(S, k), s # {}
        PROVE  /\ One(s) \in S /\ s \ {One(s)} \in Sized(S, k - 1)
               /\ s \ {One(s)} \in Sized(S, k)
    <3>1. One(s) \in s /\ s \in SUBSET S BY <2>2, OneIsIn DEF Sized
    <3>2. Cardinality(s \ {One(s)}) = Cardinality(s) - 1
          /\ Cardinality(s) \in Nat /\ Cardinality(s) <= k
      BY <3>1, Sizes DEF Sized
    <3> QED BY <1>1, <3>1, <3>2 DEF Sized
  <2>3. ASSUME NEW s \in Sized(S, k), s = {} PROVE s \in Sized(S, k - 1)
    BY <1>1, <2>3, FS_EmptySet DEF Sized
  <2>4. it \in [Sized(S, k) -> V]
    <3>1. ASSUME NEW s \in Sized(S, k), s \notin Sized(S, k - 1)
          PROVE  step[<<One(s), g[s \ {One(s)}]>>] \in V
      <4>1. One(s) \in S /\ g[s \ {One(s)}] \in V BY <2>2, <2>3, <3>1
      <4> QED BY <4>1
    <3> QED BY <3>1
  <2>5. ASSUME NEW s \in Sized(S, k) PROVE Is(it, s)
    <3>1. CASE s = {}
      <4>1. s \in Sized(S, k - 1) BY <2>3, <3>1
      <4>2. it[s] = g[s] BY <4>1
      <4>3. g[s] = base BY <2>1, <3>1, <4>1
      <4> QED BY <3>1, <4>2, <4>3
    <3>2. CASE s # {}
      <4>1. it[s \ {One(s)}] = g[s \ {One(s)}] BY <2>2, <3>2
      <4>2. it[s] = step[<<One(s), g[s \ {One(s)}]>>]
        <5>1. CASE s \in Sized(S, k - 1)
          <6>1. it[s] = g[s] /\ Is(g, s) BY <2>1, <5>1
          <6> QED BY <3>2, <6>1
        <5>2. CASE s \notin Sized(S, k - 1) BY <5>2
        <5> QED BY <5>1, <5>2
      <4> QED BY <3>2, <4>1, <4>2
    <3> QED BY <3>1, <3>2
  <2> HIDE DEF it, Is
  <2> QED BY <2>4, <2>5
<1>4. n \in Good
  <2> HIDE DEF Good, n
  <2> QED BY <1>1, <1>2, <1>3, UpTo
<1>5. PICK it \in [Sized(S, n) -> V] : \A s \in Sized(S, n) : Is(it, s) BY <1>4
<1>6. Sized(S, n) = SUBSET S BY Sizes DEF Sized
<1> QED BY <1>5, <1>6 DEF IsFold

(* A recursive definition of the fold is the fold.                         *)
LEMMA FoldIs ==
  ASSUME NEW S, IsFiniteSet(S), NEW V, NEW base \in V, NEW step \in [S \X V -> V],
         NEW it, IsFoldAt(S, V, base, step, it)
  PROVE  IsFold(S, V, base, step, it)
<1> DEFINE T == {s \in SUBSET S : it[s] \in V}
<1>1. ASSUME NEW s \in SUBSET S, \A x \in s : s \ {x} \in T PROVE s \in T
  <2>1. CASE s = {} BY <2>1 DEF IsFoldAt
  <2>2. CASE s # {}
    <3>1. One(s) \in s /\ it[s \ {One(s)}] \in V BY <1>1, <2>2, OneIsIn
    <3>2. it[s] = step[<<One(s), it[s \ {One(s)}]>>] BY <2>2, <3>1 DEF IsFoldAt
    <3>3. One(s) \in S BY <3>1
    <3> QED BY <3>1, <3>2, <3>3
  <2> QED BY <2>1, <2>2
<1>2. SUBSET S \subseteq T
  <2> HIDE DEF T
  <2> QED BY <1>1, SetUpTo
<1>3. it \in [SUBSET S -> V] BY <1>2 DEF IsFoldAt
<1>4. ASSUME NEW s \in SUBSET S
      PROVE  it[s] = IF s = {} THEN base ELSE step[<<One(s), it[s \ {One(s)}]>>]
  <2>1. s \ {One(s)} \in SUBSET S OBVIOUS
  <2>2. it[s \ {One(s)}] \in V BY <1>3, <2>1
  <2> QED BY <2>2 DEF IsFoldAt
<1> QED BY <1>3, <1>4 DEF IsFold

SameSteps(P, V, other, step) ==
  \A x \in P, v \in V : other[<<x, v>>] = step[<<x, v>>]

SameFold(P, of, it) == of[P] = it[P]

(* What the fold of a part is does not depend on the rest.                 *)
LEMMA FoldOfPart ==
  ASSUME NEW S, IsFiniteSet(S), NEW V, NEW base \in V, NEW step \in [S \X V -> V],
         NEW it, IsFold(S, V, base, step, it),
         NEW P \in SUBSET S, NEW other \in [P \X V -> V], NEW of,
         IsFold(P, V, base, other, of),
         SameSteps(P, V, other, step)
  PROVE  SameFold(P, of, it)
<1> DEFINE T == {s \in SUBSET P : of[s] = it[s]}
<1>1. ASSUME NEW s \in SUBSET P, \A x \in s : s \ {x} \in T PROVE s \in T
  <2>1. CASE s = {} BY <2>1 DEF IsFold
  <2>2. CASE s # {}
    <3>1. One(s) \in s /\ of[s \ {One(s)}] = it[s \ {One(s)}] BY <1>1, <2>2, OneIsIn
    <3>2. s \ {One(s)} \in SUBSET P /\ s \in SUBSET S OBVIOUS
    <3>3. of[s \ {One(s)}] \in V BY <3>2 DEF IsFold
    <3>4. of[s] = other[<<One(s), of[s \ {One(s)}]>>] BY <2>2 DEF IsFold
    <3>5. it[s] = step[<<One(s), it[s \ {One(s)}]>>] BY <2>2, <3>2 DEF IsFold
    <3>6. One(s) \in P BY <3>1
    <3> QED BY <3>1, <3>3, <3>4, <3>5, <3>6 DEF SameSteps
  <2> QED BY <2>1, <2>2
<1>2. SUBSET P \subseteq T
  <2> HIDE DEF T
  <2>1. IsFiniteSet(P) BY FS_Subset
  <2> QED BY <1>1, <2>1, SetUpTo
<1> QED BY <1>2 DEF SameFold

(* Sums of the numbers fun[x], the x in S. *)
LEMMA SumIsFold ==
  ASSUME NEW S, IsFiniteSet(S), NEW fun, \A x \in S : fun[x] \in Int
  PROVE  \E it : /\ IsFold(S, Int, 0, [a \in S \X Int |-> fun[a[1]] + a[2]], it)
                /\ SumFunctionOnSet(fun, S) = it[S]
<1> DEFINE step == [a \in S \X Int |-> fun[a[1]] + a[2]]
           Unfold(g) == [s \in SUBSET S |->
                         IF s = {} THEN 0
                         ELSE fun[One(s)] + g[s \ {One(s)}]]
           it == CHOOSE g : g = Unfold(g)
<1>1. step \in [S \X Int -> Int] OBVIOUS
<1>2. \A x \in S, v \in Int : step[<<x, v>>] = fun[x] + v OBVIOUS
<1>3. SumFunctionOnSet(fun, S) = it[S]
  BY DEF SumFunctionOnSet, FoldFunctionOnSet, MapThenFoldSet, One
<1> HIDE DEF step
<1>4. \E g : g = Unfold(g)
  <2>1. PICK g : IsFold(S, Int, 0, step, g)
    <3> HIDE DEF Unfold
    <3>1. 0 \in Int OBVIOUS
    <3> QED BY <1>1, <3>1, FoldExists
  <2>2. ASSUME NEW s \in SUBSET S, s # {}
        PROVE  g[s] = fun[One(s)] + g[s \ {One(s)}]
    <3>1. One(s) \in S /\ g[s \ {One(s)}] \in Int
      BY <2>1, <2>2, OneIsIn DEF IsFold
    <3> QED BY <1>2, <2>1, <2>2, <3>1 DEF IsFold
  <2>3. g = [s \in SUBSET S |-> g[s]] BY <2>1 DEF IsFold
  <2>4. \A s \in SUBSET S : g[s] = Unfold(g)[s] BY <2>1, <2>2 DEF IsFold
  <2>5. g = Unfold(g) BY <2>3, <2>4
  <2> QED BY <2>5
<1>5. it = Unfold(it) BY <1>4
<1> HIDE DEF it
<1>6. it = [s \in SUBSET S |-> it[s]] /\ it[{}] = 0 BY <1>5
<1>7. ASSUME NEW s \in (SUBSET S) \ {{}}, it[s \ {One(s)}] \in Int
      PROVE  it[s] = step[<<One(s), it[s \ {One(s)}]>>]
  <2>1. One(s) \in S BY OneIsIn
  <2>2. it[s] = Unfold(it)[s] BY <1>5
  <2> QED BY <1>2, <1>7, <2>1, <2>2
<1>8. IsFoldAt(S, Int, 0, step, it) BY <1>6, <1>7 DEF IsFoldAt
<1>9. IsFold(S, Int, 0, step, it) BY <1>1, <1>8, FoldIs
<1> QED BY <1>3, <1>9 DEF step

LEMMA SumOfNone ==
  ASSUME NEW fun
  PROVE  SumFunctionOnSet(fun, {}) = 0
<1>1. IsFiniteSet({}) BY FS_EmptySet
<1>2. PICK it : /\ IsFold({}, Int, 0, [a \in {} \X Int |-> fun[a[1]] + a[2]], it)
                /\ SumFunctionOnSet(fun, {}) = it[{}]
  BY <1>1, SumIsFold
<1> QED BY <1>2 DEF IsFold

(* Of any x of S: its number, and the sum of the others.                   *)
LEMMA SumOfSome ==
  ASSUME NEW S, IsFiniteSet(S), NEW fun, \A x \in S : fun[x] \in Int
  PROVE  /\ SumFunctionOnSet(fun, S) \in Int
         /\ \A x \in S : SumFunctionOnSet(fun, S)
                         = fun[x] + SumFunctionOnSet(fun, S \ {x})
<1> DEFINE step == [a \in S \X Int |-> fun[a[1]] + a[2]]
<1>1. PICK it : IsFold(S, Int, 0, step, it) BY SumIsFold
<1>2. step \in [S \X Int -> Int] OBVIOUS
<1>3. \A x \in S, v \in Int : step[<<x, v>>] = fun[x] + v OBVIOUS
<1> HIDE DEF step
<1>4. ASSUME NEW P \in SUBSET S PROVE SumFunctionOnSet(fun, P) = it[P]
  <2> DEFINE other == [a \in P \X Int |-> fun[a[1]] + a[2]]
  <2>1. IsFiniteSet(P) /\ 0 \in Int BY FS_Subset
  <2>2. PICK of : /\ IsFold(P, Int, 0, other, of)
                  /\ SumFunctionOnSet(fun, P) = of[P]
    BY <2>1, SumIsFold
  <2>3. other \in [P \X Int -> Int] OBVIOUS
  <2>4. SameSteps(P, Int, other, step) BY <1>3 DEF SameSteps
  <2> HIDE DEF other
  <2>5. IsFold(P, Int, 0, other, of) BY <2>2
  <2>6. SameFold(P, of, it)
    BY <1>1, <1>2, <2>1, <2>3, <2>4, <2>5, FoldOfPart
  <2> QED BY <2>2, <2>6 DEF SameFold
<1> DEFINE T == {s \in SUBSET S : \A x \in s : it[s] = fun[x] + it[s \ {x}]}
<1>5. ASSUME NEW s \in SUBSET S, \A x \in s : s \ {x} \in T PROVE s \in T
  <2> SUFFICES ASSUME NEW x \in s PROVE it[s] = fun[x] + it[s \ {x}] OBVIOUS
  <2> DEFINE c == One(s)
  <2>1. c \in s BY OneIsIn
  <2>2. it \in [SUBSET S -> Int] BY <1>1 DEF IsFold
  <2>3. it[s] = step[<<c, it[s \ {c}]>>] BY <1>1 DEF IsFold
  <2> HIDE DEF c
  <2>4. s \ {c} \in SUBSET S /\ it[s \ {c}] \in Int BY <2>2
  <2>5. it[s] = fun[c] + it[s \ {c}] BY <1>3, <2>1, <2>3, <2>4
  <2>6. CASE x = c BY <2>5, <2>6
  <2>7. CASE x # c
    <3>1. it[s \ {c}] = fun[x] + it[(s \ {c}) \ {x}] BY <1>5, <2>1, <2>7
    <3>2. it[s \ {x}] = fun[c] + it[(s \ {x}) \ {c}] BY <1>5, <2>1, <2>7
    <3>3. (s \ {c}) \ {x} = (s \ {x}) \ {c} /\ (s \ {c}) \ {x} \in SUBSET S
      OBVIOUS
    <3>4. it[(s \ {c}) \ {x}] \in Int /\ fun[x] \in Int /\ fun[c] \in Int
      BY <2>1, <2>2, <3>3
    <3> DEFINE r == it[(s \ {c}) \ {x}]
    <3>5. it[s \ {x}] = fun[c] + r BY <3>2, <3>3
    <3>6. it[s] = fun[c] + (fun[x] + r) BY <2>5, <3>1
    <3> HIDE DEF T, r
    <3>7. r \in Int BY <3>4 DEF r
    <3> QED BY <3>4, <3>5, <3>6, <3>7
  <2> QED BY <2>6, <2>7
<1>6. SUBSET S \subseteq T
  <2> HIDE DEF T
  <2> QED BY <1>5, SetUpTo
<1>7. \A x \in S : it[S] = fun[x] + it[S \ {x}] BY <1>6
<1>8. it[S] \in Int BY <1>1 DEF IsFold
<1> QED BY <1>4, <1>7, <1>8

(* The sum only looks at the numbers of S.                                 *)
LEMMA SumOfSame ==
  ASSUME NEW S, IsFiniteSet(S), NEW f, NEW g,
         \A x \in S : f[x] \in Int /\ f[x] = g[x]
  PROVE  SumFunctionOnSet(f, S) = SumFunctionOnSet(g, S)
<1> DEFINE T == {s \in SUBSET S : SumFunctionOnSet(f, s) = SumFunctionOnSet(g, s)}
<1>1. ASSUME NEW s \in SUBSET S, \A x \in s : s \ {x} \in T PROVE s \in T
  <2>1. CASE s = {} BY <2>1, SumOfNone
  <2>2. CASE s # {}
    <3>1. PICK x \in s : TRUE BY <2>2
    <3>2. IsFiniteSet(s) BY FS_Subset
    <3>3. SumFunctionOnSet(f, s \ {x}) = SumFunctionOnSet(g, s \ {x})
      BY <1>1, <3>1
    <3>4. SumFunctionOnSet(f, s) = f[x] + SumFunctionOnSet(f, s \ {x})
      BY <3>2, SumOfSome
    <3>5. SumFunctionOnSet(g, s) = g[x] + SumFunctionOnSet(g, s \ {x})
      BY <3>2, SumOfSome
    <3> QED BY <3>3, <3>4, <3>5
  <2> QED BY <2>1, <2>2
<1>2. SUBSET S \subseteq T
  <2> HIDE DEF T
  <2> QED BY <1>1, SetUpTo
<1> QED BY <1>2

LEMMA SumOfBoth ==
  ASSUME NEW A, IsFiniteSet(A), NEW B, IsFiniteSet(B), A \cap B = {},
         NEW f, \A x \in A \cup B : f[x] \in Int
  PROVE  SumFunctionOnSet(f, A \cup B)
           = SumFunctionOnSet(f, A) + SumFunctionOnSet(f, B)
<1> DEFINE T == {s \in SUBSET B : SumFunctionOnSet(f, A \cup s)
                   = SumFunctionOnSet(f, A) + SumFunctionOnSet(f, s)}
<1>0. SumFunctionOnSet(f, A) \in Int BY SumOfSome
<1>1. ASSUME NEW s \in SUBSET B, \A x \in s : s \ {x} \in T PROVE s \in T
  <2>1. CASE s = {}
    <3>1. A \cup s = A BY <2>1
    <3> QED BY <1>0, <2>1, <3>1, SumOfNone
  <2>2. CASE s # {}
    <3>1. PICK x \in s : TRUE BY <2>2
    <3>2. IsFiniteSet(s) /\ IsFiniteSet(A \cup s) /\ IsFiniteSet(s \ {x})
      <4>1. IsFiniteSet(s) BY FS_Subset
      <4>2. IsFiniteSet(s \ {x}) BY <4>1, FS_Subset
      <4> QED BY <4>1, <4>2, FS_Union
    <3>3. SumFunctionOnSet(f, A \cup (s \ {x}))
            = SumFunctionOnSet(f, A) + SumFunctionOnSet(f, s \ {x})
      BY <1>1, <3>1
    <3>4. SumFunctionOnSet(f, s) = f[x] + SumFunctionOnSet(f, s \ {x})
      BY <3>2, SumOfSome
    <3>5. (A \cup s) \ {x} = A \cup (s \ {x}) /\ x \in A \cup s BY <3>1
    <3>6. SumFunctionOnSet(f, A \cup s)
            = f[x] + SumFunctionOnSet(f, (A \cup s) \ {x})
      BY <3>2, <3>5, SumOfSome
    <3>7. SumFunctionOnSet(f, s \ {x}) \in Int /\ f[x] \in Int
      BY <3>2, SumOfSome
    <3> HIDE DEF T
    <3> DEFINE sa == SumFunctionOnSet(f, A)
               ss == SumFunctionOnSet(f, s \ {x})
    <3>70. sa \in Int /\ ss \in Int BY <1>0, <3>7
    <3>71. SumFunctionOnSet(f, A \cup s) = f[x] + (sa + ss)
      BY <3>3, <3>5, <3>6
    <3>72. SumFunctionOnSet(f, s) = f[x] + ss BY <3>4
    <3> HIDE DEF ss
    <3>8. SumFunctionOnSet(f, A \cup s) = sa + SumFunctionOnSet(f, s)
      BY <3>7, <3>70, <3>71, <3>72
    <3> QED BY <3>8 DEF T
  <2> QED BY <2>1, <2>2
<1>2. SUBSET B \subseteq T
  <2> HIDE DEF T
  <2> QED BY <1>1, SetUpTo
<1> QED BY <1>2

LEMMA SumIsNatural ==
  ASSUME NEW S, IsFiniteSet(S), NEW f, \A x \in S : f[x] \in Nat
  PROVE  SumFunctionOnSet(f, S) \in Nat
<1> DEFINE T == {s \in SUBSET S : SumFunctionOnSet(f, s) \in Nat}
<1>1. ASSUME NEW s \in SUBSET S, \A x \in s : s \ {x} \in T PROVE s \in T
  <2>1. CASE s = {} BY <2>1, SumOfNone
  <2>2. CASE s # {}
    <3>1. PICK x \in s : TRUE BY <2>2
    <3>2. IsFiniteSet(s) /\ \A y \in s : f[y] \in Int BY FS_Subset
    <3>3. SumFunctionOnSet(f, s) = f[x] + SumFunctionOnSet(f, s \ {x})
      BY <3>2, SumOfSome
    <3>4. SumFunctionOnSet(f, s \ {x}) \in Nat /\ f[x] \in Nat BY <1>1, <3>1
    <3> QED BY <3>3, <3>4
  <2> QED BY <2>1, <2>2
<1>2. SUBSET S \subseteq T
  <2> HIDE DEF T
  <2> QED BY <1>1, SetUpTo
<1> QED BY <1>2

LEMMA SumOfMany ==
  ASSUME NEW S, IsFiniteSet(S), NEW f, NEW g, NEW k \in Int,
         \A x \in S : f[x] \in Int /\ g[x] = k * f[x]
  PROVE  SumFunctionOnSet(g, S) = k * SumFunctionOnSet(f, S)
<1> DEFINE T == {s \in SUBSET S :
                   SumFunctionOnSet(g, s) = k * SumFunctionOnSet(f, s)}
<1>0. \A x \in S : g[x] \in Int
  <2>1. \A i \in Int : k * i \in Int OBVIOUS
  <2> QED BY <2>1
<1>1. ASSUME NEW s \in SUBSET S, \A x \in s : s \ {x} \in T PROVE s \in T
  <2>1. CASE s = {} BY <2>1, SumOfNone
  <2>2. CASE s # {}
    <3>1. PICK x \in s : TRUE BY <2>2
    <3>2. /\ IsFiniteSet(s) /\ \A y \in s : f[y] \in Int /\ g[y] \in Int
          /\ IsFiniteSet(s \ {x})
      BY <1>0, FS_Subset
    <3> DEFINE sf == SumFunctionOnSet(f, s \ {x})
               sg == SumFunctionOnSet(g, s \ {x})
    <3>3. SumFunctionOnSet(f, s) = f[x] + sf BY <3>2, SumOfSome
    <3>4. SumFunctionOnSet(g, s) = g[x] + sg BY <3>2, SumOfSome
    <3>5. sg = k * sf BY <1>1, <3>1
    <3>6. sf \in Int BY <3>2, SumOfSome
    <3>7. f[x] \in Int /\ g[x] = k * f[x] OBVIOUS
    <3> HIDE DEF T, sf, sg
    <3>8. \A a, b \in Int : k * a + k * b = k * (a + b) OBVIOUS
    <3>9. SumFunctionOnSet(g, s) = k * SumFunctionOnSet(f, s)
      BY <3>3, <3>4, <3>5, <3>6, <3>7, <3>8
    <3> QED BY <3>9 DEF T
  <2> QED BY <2>1, <2>2
<1>2. SUBSET S \subseteq T
  <2> HIDE DEF T
  <2> QED BY <1>1, SetUpTo
<1> QED BY <1>2

(* Where there is nothing to add nothing is left out.                      *)
LEMMA SumOfZeros ==
  ASSUME NEW S, IsFiniteSet(S), NEW f, \A x \in S : f[x] = 0
  PROVE  SumFunctionOnSet(f, S) = 0
<1> DEFINE T == {s \in SUBSET S : SumFunctionOnSet(f, s) = 0}
<1>1. ASSUME NEW s \in SUBSET S, \A x \in s : s \ {x} \in T PROVE s \in T
  <2>1. CASE s = {} BY <2>1, SumOfNone
  <2>2. CASE s # {}
    <3>1. PICK x \in s : TRUE BY <2>2
    <3>2. IsFiniteSet(s) /\ \A y \in s : f[y] \in Int BY FS_Subset
    <3>3. SumFunctionOnSet(f, s) = f[x] + SumFunctionOnSet(f, s \ {x})
      BY <3>2, SumOfSome
    <3> QED BY <1>1, <3>1, <3>3
  <2> QED BY <2>1, <2>2
<1>2. SUBSET S \subseteq T
  <2> HIDE DEF T
  <2> QED BY <1>1, SetUpTo
<1> QED BY <1>2

LEMMA SumOfSupport ==
  ASSUME NEW S, IsFiniteSet(S), NEW P \in SUBSET S, NEW f,
         \A x \in S : f[x] \in Int, \A x \in S \ P : f[x] = 0
  PROVE  SumFunctionOnSet(f, S) = SumFunctionOnSet(f, P)
<1>1. IsFiniteSet(P) /\ IsFiniteSet(S \ P) BY FS_Subset
<1>2. SumFunctionOnSet(f, S \ P) = 0 BY <1>1, SumOfZeros
<1>3. P \cup (S \ P) = S /\ P \cap (S \ P) = {} OBVIOUS
<1>4. SumFunctionOnSet(f, S)
        = SumFunctionOnSet(f, P) + SumFunctionOnSet(f, S \ P)
  BY <1>1, <1>3, SumOfBoth
<1>5. SumFunctionOnSet(f, P) \in Int BY <1>1, SumOfSome
<1> QED BY <1>2, <1>4, <1>5

(* A number of things is a sum of ones.                                    *)
LEMMA SumOfOnes ==
  ASSUME NEW S, IsFiniteSet(S), NEW f, \A x \in S : f[x] = 1
  PROVE  SumFunctionOnSet(f, S) = Cardinality(S)
<1> DEFINE T == {s \in SUBSET S : SumFunctionOnSet(f, s) = Cardinality(s)}
<1>1. ASSUME NEW s \in SUBSET S, \A x \in s : s \ {x} \in T PROVE s \in T
  <2>1. CASE s = {} BY <2>1, SumOfNone, FS_EmptySet
  <2>2. CASE s # {}
    <3>1. PICK x \in s : TRUE BY <2>2
    <3>2. IsFiniteSet(s) /\ \A y \in s : f[y] \in Int BY FS_Subset
    <3>3. SumFunctionOnSet(f, s) = f[x] + SumFunctionOnSet(f, s \ {x})
      BY <3>2, SumOfSome
    <3>4. /\ Cardinality(s) \in Nat
          /\ Cardinality(s \ {x}) = Cardinality(s) - 1
      BY Sizes
    <3>5. SumFunctionOnSet(f, s \ {x}) = Cardinality(s \ {x}) BY <1>1, <3>1
    <3>6. f[x] = 1 OBVIOUS
    <3> HIDE DEF T
    <3>7. SumFunctionOnSet(f, s) = Cardinality(s) BY <3>3, <3>4, <3>5, <3>6
    <3> QED BY <3>7 DEF T
  <2> QED BY <2>1, <2>2
<1>2. SUBSET S \subseteq T
  <2> HIDE DEF T
  <2> QED BY <1>1, SetUpTo
<1> QED BY <1>2

(* As many as there are ones to add up.                                    *)
Marks(d, P, S) == \A x \in S : d[x] = IF x \in P THEN 1 ELSE 0

LEMMA SumOfMembers ==
  ASSUME NEW S, IsFiniteSet(S), NEW P \in SUBSET S, NEW d, Marks(d, P, S)
  PROVE  SumFunctionOnSet(d, S) = Cardinality(P)
<1>1. IsFiniteSet(P) BY FS_Subset
<1>2. \A x \in S : d[x] \in Int BY DEF Marks
<1>3. /\ \A x \in P : d[x] = 1
      /\ \A x \in S \ P : d[x] = 0
  BY DEF Marks
<1>4. SumFunctionOnSet(d, S) = SumFunctionOnSet(d, P) BY <1>2, <1>3, SumOfSupport
<1>5. SumFunctionOnSet(d, P) = Cardinality(P) BY <1>1, <1>3, SumOfOnes
<1> QED BY <1>4, <1>5

(* Parts of S that have nothing in common and leave nothing out.           *)
Divides(C, part, S) ==
  /\ \A c \in C : part[c] \subseteq S
  /\ \A x \in S : \E c \in C : x \in part[c]
  /\ \A c, d \in C : c # d => part[c] \cap part[d] = {}

LEMMA SumOfParts ==
  ASSUME NEW S, IsFiniteSet(S), NEW f, \A x \in S : f[x] \in Int,
         NEW C, IsFiniteSet(C), NEW part, Divides(C, part, S),
         NEW sums, \A c \in C : sums[c] = SumFunctionOnSet(f, part[c])
  PROVE  SumFunctionOnSet(f, S) = SumFunctionOnSet(sums, C)
<1> DEFINE Whole(s) == UNION {part[c] : c \in s}
           T == {s \in SUBSET C :
                   SumFunctionOnSet(f, Whole(s)) = SumFunctionOnSet(sums, s)}
<1>0. \A c \in C : IsFiniteSet(part[c]) /\ part[c] \subseteq S
  BY FS_Subset DEF Divides
<1>00. \A c \in C : sums[c] \in Int
  <2> SUFFICES ASSUME NEW c \in C PROVE sums[c] \in Int OBVIOUS
  <2>1. IsFiniteSet(part[c]) /\ \A x \in part[c] : f[x] \in Int BY <1>0
  <2> QED BY <2>1, SumOfSome
<1>1. ASSUME NEW s \in SUBSET C, \A c \in s : s \ {c} \in T PROVE s \in T
  <2>1. CASE s = {}
    <3>1. Whole(s) = {} BY <2>1
    <3> QED BY <2>1, <3>1, SumOfNone
  <2>2. CASE s # {}
    <3>1. PICK c \in s : TRUE BY <2>2
    <3> DEFINE rest == Whole(s \ {c})
    <3>2. Whole(s) = rest \cup part[c] BY <3>1
    <3>3. rest \cap part[c] = {} BY <3>1 DEF Divides
    <3>4. rest \subseteq S BY <1>0
    <3>5. SumFunctionOnSet(f, rest) = SumFunctionOnSet(sums, s \ {c}) BY <1>1
    <3> HIDE DEF rest
    <3>6. IsFiniteSet(rest) BY <3>4, FS_Subset
    <3>7. \A x \in rest \cup part[c] : f[x] \in Int BY <1>0, <3>4
    <3>8. SumFunctionOnSet(f, rest \cup part[c])
            = SumFunctionOnSet(f, rest) + SumFunctionOnSet(f, part[c])
      BY <1>0, <3>3, <3>6, <3>7, SumOfBoth
    <3>9. IsFiniteSet(s) /\ \A d \in s : sums[d] \in Int BY <1>00, FS_Subset
    <3>10. SumFunctionOnSet(sums, s) = sums[c] + SumFunctionOnSet(sums, s \ {c})
      BY <3>9, SumOfSome
    <3>11. IsFiniteSet(s \ {c}) /\ \A d \in s \ {c} : sums[d] \in Int
      BY <3>9, FS_Subset
    <3>12. SumFunctionOnSet(sums, s \ {c}) \in Int BY <3>11, SumOfSome
    <3>13. sums[c] = SumFunctionOnSet(f, part[c]) /\ sums[c] \in Int BY <1>00
    <3> HIDE DEF T, Whole
    <3>14. SumFunctionOnSet(f, Whole(s)) = SumFunctionOnSet(sums, s)
      BY <3>2, <3>5, <3>8, <3>10, <3>12, <3>13
    <3> QED BY <3>14 DEF T
  <2> QED BY <2>1, <2>2
<1>2. SUBSET C \subseteq T
  <2> HIDE DEF T
  <2> QED BY <1>1, SetUpTo
<1>3. Whole(C) = S BY <1>0 DEF Divides
<1> QED BY <1>2, <1>3

(* Fractions with a denominator.                                           *)
Proper == Int \X (Nat \ {0})

LEMMA PlusType ==
  /\ <<0, 1>> \in Proper
  /\ \A x, y \in Proper : Plus(x, y) \in Proper
<1>1. <<0, 1>> \in Proper BY DEF Proper
<1>2. ASSUME NEW x \in Proper, NEW y \in Proper PROVE Plus(x, y) \in Proper
  <2>1. x[1] \in Int /\ y[1] \in Int /\ x[2] \in Nat \ {0} /\ y[2] \in Nat \ {0}
    BY DEF Proper
  <2>2. \A a, b \in Int, c, d \in Nat \ {0} : a * d + b * c \in Int /\ c * d \in Nat \ {0}
    OBVIOUS
  <2>3. x[1] * y[2] + y[1] * x[2] \in Int /\ x[2] * y[2] \in Nat \ {0}
    BY <2>1, <2>2
  <2> QED BY <2>3 DEF Plus, Proper
<1> QED BY <1>1, <1>2

LEMMA PlusIsFold ==
  ASSUME NEW S, IsFiniteSet(S), NEW x \in [S -> Proper]
  PROVE  \E it : /\ IsFold(S, Proper, <<0, 1>>,
                          [a \in S \X Proper |-> Plus(x[a[1]], a[2])], it)
                /\ FoldFunction(Plus, <<0, 1>>, x) = it[S]
<1> DEFINE step == [a \in S \X Proper |-> Plus(x[a[1]], a[2])]
           base == <<0, 1>>
           Unfold(g) == [s \in SUBSET S |->
                         IF s = {} THEN base
                         ELSE Plus(x[One(s)], g[s \ {One(s)}])]
           it == CHOOSE g : g = Unfold(g)
<1>1. step \in [S \X Proper -> Proper] BY PlusType
<1>2. \A i \in S, v \in Proper : step[<<i, v>>] = Plus(x[i], v) OBVIOUS
<1>2a. base \in Proper BY PlusType
<1>3. FoldFunction(Plus, base, x) = it[S]
  BY DEF FoldFunction, FoldFunctionOnSet, MapThenFoldSet, One
<1> HIDE DEF step, base
<1>4. \E g : g = Unfold(g)
  <2>1. PICK g : IsFold(S, Proper, base, step, g)
    <3> HIDE DEF Unfold
    <3> QED BY <1>1, <1>2a, FoldExists
  <2>2. ASSUME NEW s \in SUBSET S, s # {}
        PROVE  g[s] = Plus(x[One(s)], g[s \ {One(s)}])
    <3>1. One(s) \in S /\ g[s \ {One(s)}] \in Proper
      BY <2>1, <2>2, OneIsIn DEF IsFold
    <3> QED BY <1>2, <2>1, <2>2, <3>1 DEF IsFold
  <2>3. g = [s \in SUBSET S |-> g[s]] BY <2>1 DEF IsFold
  <2>4. \A s \in SUBSET S : g[s] = Unfold(g)[s] BY <2>1, <2>2 DEF IsFold
  <2>5. g = Unfold(g) BY <2>3, <2>4
  <2> QED BY <2>5
<1>5. it = Unfold(it) BY <1>4
<1> HIDE DEF it
<1>6. it = [s \in SUBSET S |-> it[s]] /\ it[{}] = base BY <1>5
<1>7. ASSUME NEW s \in (SUBSET S) \ {{}}, it[s \ {One(s)}] \in Proper
      PROVE  it[s] = step[<<One(s), it[s \ {One(s)}]>>]
  <2>1. One(s) \in S BY OneIsIn
  <2>2. it[s] = Unfold(it)[s] BY <1>5
  <2> QED BY <1>2, <1>7, <2>1, <2>2
<1>8. IsFoldAt(S, Proper, base, step, it) BY <1>6, <1>7 DEF IsFoldAt
<1>9. IsFold(S, Proper, base, step, it) BY <1>1, <1>2a, <1>8, FoldIs
<1> QED BY <1>3, <1>9 DEF step, base

(* The sum of fractions that are whole numbers, whatever the denominators. *)
LEMMA PlusSums ==
  ASSUME NEW S, IsFiniteSet(S), NEW x \in [S -> Proper], NEW counts,
         \A i \in S : counts[i] \in Int /\ x[i][1] = counts[i] * x[i][2]
  PROVE  LET sum == FoldFunction(Plus, <<0, 1>>, x)
         IN /\ sum \in Proper
            /\ sum[1] = SumFunctionOnSet(counts, S) * sum[2]
<1> DEFINE step == [a \in S \X Proper |-> Plus(x[a[1]], a[2])]
<1>1. PICK it : /\ IsFold(S, Proper, <<0, 1>>, step, it)
                /\ FoldFunction(Plus, <<0, 1>>, x) = it[S]
  BY PlusIsFold
<1>2. \A i \in S, v \in Proper : step[<<i, v>>] = Plus(x[i], v) OBVIOUS
<1> HIDE DEF step
<1> DEFINE T == {s \in SUBSET S : it[s][1] = SumFunctionOnSet(counts, s) * it[s][2]}
<1>3. ASSUME NEW s \in SUBSET S, \A i \in s : s \ {i} \in T PROVE s \in T
  <2>1. CASE s = {}
    <3>1. it[s] = <<0, 1>> BY <1>1, <2>1 DEF IsFold
    <3>2. SumFunctionOnSet(counts, s) = 0 BY <2>1, SumOfNone
    <3> QED BY <3>1, <3>2
  <2>2. CASE s # {}
    <3> DEFINE c == One(s)
               r == it[s \ {c}]
               sum == SumFunctionOnSet(counts, s \ {c})
    <3>1. c \in s /\ s \ {c} \in SUBSET S BY <2>2, OneIsIn
    <3>2. r \in Proper BY <1>1, <3>1 DEF IsFold
    <3>3. it[s] = step[<<c, r>>] BY <1>1, <2>2 DEF IsFold
    <3>4. it[s] = Plus(x[c], r) BY <1>2, <3>1, <3>2, <3>3
    <3>5. r[1] = sum * r[2] BY <1>3, <3>1
    <3>6. IsFiniteSet(s) /\ \A i \in s : counts[i] \in Int BY FS_Subset
    <3>7. SumFunctionOnSet(counts, s) = counts[c] + sum BY <3>1, <3>6, SumOfSome
    <3>8. IsFiniteSet(s \ {c}) /\ \A i \in s \ {c} : counts[i] \in Int
      BY <3>6, FS_Subset
    <3>9. sum \in Int BY <3>8, SumOfSome
    <3>10. /\ x[c] \in Proper /\ counts[c] \in Int
           /\ x[c][1] = counts[c] * x[c][2]
      BY <3>1
    <3>11. it[s][1] = SumFunctionOnSet(counts, s) * it[s][2]
      <4> DEFINE k == x[c][2]
                 l == r[2]
                 n == counts[c]
      <4>1. it[s][1] = x[c][1] * l + r[1] * k /\ it[s][2] = k * l
        BY <3>4 DEF Plus
      <4>2. k \in Int /\ l \in Int BY <3>2, <3>10 DEF Proper
      <4>3. \A a, b, d, e \in Int : (a * d) * e + (b * e) * d = (a + b) * (d * e)
        OBVIOUS
      <4>4. (n * k) * l + (sum * l) * k = (n + sum) * (k * l)
        BY <3>9, <3>10, <4>2, <4>3
      <4> HIDE DEF c, r, sum
      <4> QED BY <3>5, <3>7, <3>10, <4>1, <4>4
    <3> HIDE DEF T
    <3> QED BY <3>11 DEF T
  <2> QED BY <2>1, <2>2
<1>4. SUBSET S \subseteq T
  <2> HIDE DEF T
  <2> QED BY <1>3, SetUpTo
<1>5. it[S] \in Proper BY <1>1 DEF IsFold
<1> QED BY <1>1, <1>4, <1>5

(* The mean of rates, weighted by what they are rates of, is the rate of   *)
(* the whole.                                                              *)
LEMMA MeanOfRates ==
  ASSUME NEW C, IsFiniteSet(C), NEW values \in [C -> Proper],
         NEW weights \in [C -> Nat], NEW counts,
         \A i \in C : /\ counts[i] \in Int
                      /\ Equal(values[i], Fraction(counts[i], weights[i]))
                      /\ weights[i] = 0 => counts[i] = 0
  PROVE  /\ WeightedMean(values, weights) \in Proper
         /\ Equal(WeightedMean(values, weights),
                  Fraction(SumFunctionOnSet(counts, C), SumFunctionOnSet(weights, C)))
<1> DEFINE usable == {i \in C : weights[i] > 0}
           x == [i \in usable |-> Times(values[i], weights[i])]
           sum == FoldFunction(Plus, <<0, 1>>, x)
           weight == SumFunctionOnSet(weights, usable)
           count == SumFunctionOnSet(counts, usable)
           mean == WeightedMean(values, weights)
<1>1. IsFiniteSet(usable) /\ usable \in SUBSET C BY FS_Subset
<1>2. mean = IF weight = 0 THEN <<0, 1>> ELSE <<sum[1], sum[2] * weight>>
  <2>1. DOMAIN weights = C OBVIOUS
  <2> QED BY <2>1 DEF WeightedMean
<1>3. ASSUME NEW i \in usable
      PROVE  x[i] \in Proper /\ x[i][1] = counts[i] * x[i][2]
  <2>1. weights[i] \in Nat \ {0} /\ values[i] \in Proper OBVIOUS
  <2>2. values[i][1] * weights[i] = counts[i] * values[i][2]
    <3>1. Fraction(counts[i], weights[i]) = <<counts[i], weights[i]>>
      BY <2>1 DEF Fraction
    <3>2. Equal(values[i], <<counts[i], weights[i]>>) BY <3>1
    <3> QED BY <3>2 DEF Equal
  <2>3. x[i] = <<values[i][1] * weights[i], values[i][2]>> BY DEF Times
  <2>4. \A n \in Int, w \in Nat : n * w \in Int OBVIOUS
  <2>5. values[i][1] \in Int /\ values[i][2] \in Nat \ {0} BY <2>1 DEF Proper
  <2>6. values[i][1] * weights[i] \in Int BY <2>1, <2>4, <2>5
  <2> HIDE DEF x, usable
  <2> QED BY <2>2, <2>3, <2>5, <2>6 DEF Proper
<1>4. x \in [usable -> Proper] BY <1>3
<1>4a. /\ \A i \in C : counts[i] \in Int
       /\ \A i \in C : weights[i] = 0 => counts[i] = 0
  <2> HIDE DEF usable, x, sum, weight, count, mean
  <2> QED OBVIOUS
<1>5. \A i \in usable : counts[i] \in Int /\ x[i][1] = counts[i] * x[i][2]
  BY <1>3, <1>4a
<1>6. SumFunctionOnSet(weights, C) = weight
  <2>1. \A i \in C \ usable : weights[i] = 0 OBVIOUS
  <2>2. \A i \in C : weights[i] \in Int OBVIOUS
  <2> HIDE DEF usable
  <2> QED BY <1>1, <2>1, <2>2, SumOfSupport
<1>7. SumFunctionOnSet(counts, C) = count
  <2>1. \A i \in C \ usable : counts[i] = 0 BY <1>4a
  <2>2. \A i \in C : counts[i] \in Int BY <1>4a
  <2> HIDE DEF usable
  <2> QED BY <1>1, <2>1, <2>2, SumOfSupport
<1>8. weight \in Int /\ count \in Int
  <2>1. \A i \in usable : weights[i] \in Int /\ counts[i] \in Int BY <1>4a
  <2> HIDE DEF usable
  <2> QED BY <1>1, <2>1, SumOfSome
<1> HIDE DEF x, usable
<1>9. sum \in Proper /\ sum[1] = count * sum[2]
  BY <1>1, <1>4, <1>5, PlusSums
<1>10. weight >= 0
  <2>1. \A i \in usable : weights[i] \in Nat BY DEF usable
  <2> QED BY <1>1, <2>1, SumIsNatural
<1> HIDE DEF mean, sum, weight, count
<1>11. CASE weight = 0
  <2>1. mean = <<0, 1>> BY <1>2, <1>11
  <2>2. Fraction(count, weight) = <<0, 1>> BY <1>11 DEF Fraction
  <2>3. mean \in Proper /\ Equal(mean, Fraction(count, weight))
    BY <2>1, <2>2, PlusType DEF Equal
  <2> QED BY <1>6, <1>7, <2>3 DEF mean
<1>12. CASE weight # 0
  <2>1. mean = <<sum[1], sum[2] * weight>> BY <1>2, <1>12
  <2>2. weight \in Nat \ {0} /\ sum[2] \in Nat \ {0} /\ sum[1] \in Int
    BY <1>8, <1>9, <1>10, <1>12 DEF Proper
  <2>3. \A m, n \in Nat \ {0} : m * n \in Nat \ {0} OBVIOUS
  <2>4. mean \in Proper BY <2>1, <2>2, <2>3 DEF Proper
  <2>5. Fraction(count, weight) = <<count, weight>> BY <1>12 DEF Fraction
  <2>6. \A a, m, n \in Int : (a * m) * n = a * (m * n) OBVIOUS
  <2>7. (count * sum[2]) * weight = count * (sum[2] * weight)
    BY <1>8, <2>2, <2>6
  <2>8. Equal(mean, Fraction(count, weight))
    BY <1>9, <2>1, <2>5, <2>7 DEF Equal
  <2> QED BY <1>6, <1>7, <2>4, <2>8 DEF mean
<1> QED BY <1>11, <1>12
-------------------------------------------------------------------------------
(* The extremes of a set of numbers, if there are any.                     *)
IsLeast(v, V) == IF V = {} THEN v = None ELSE v \in V /\ \A y \in V : v <= y

IsGreatest(v, V) == IF V = {} THEN v = None ELSE v \in V /\ \A y \in V : y <= v

LEMMA ExtremesAre ==
  ASSUME NEW V, V \subseteq Nat, NEW v
  PROVE  /\ IsLeast(v, V) => v = IF V = {} THEN None ELSE Min(V)
         /\ IsGreatest(v, V) => v = IF V = {} THEN None ELSE Max(V)
<1>1. CASE V = {} BY <1>1 DEF IsLeast, IsGreatest
<1>2. ASSUME V # {}, IsLeast(v, V) PROVE v = Min(V)
  <2>1. v \in V /\ \A y \in V : v <= y BY <1>2 DEF IsLeast
  <2>2. Min(V) \in V /\ \A y \in V : Min(V) <= y BY <2>1 DEF Min
  <2>3. v <= Min(V) /\ Min(V) <= v /\ v \in Nat /\ Min(V) \in Nat
    BY <2>1, <2>2
  <2> QED BY <2>3
<1>3. ASSUME V # {}, IsGreatest(v, V) PROVE v = Max(V)
  <2>1. v \in V /\ \A y \in V : v >= y BY <1>3 DEF IsGreatest
  <2>2. Max(V) \in V /\ \A y \in V : Max(V) >= y BY <2>1 DEF Max
  <2>3. v <= Max(V) /\ Max(V) <= v /\ v \in Nat /\ Max(V) \in Nat
    BY <2>1, <2>2
  <2> QED BY <2>3
<1> QED BY <1>1, <1>2, <1>3

LEMMA ExtremesOfBoth ==
  ASSUME NEW A, A \subseteq Nat, NEW B, B \subseteq Nat, NEW a, NEW b
  PROVE  /\ IsLeast(a, A) /\ IsLeast(b, B) => IsLeast(Smaller(a, b), A \cup B)
         /\ IsGreatest(a, A) /\ IsGreatest(b, B)
              => IsGreatest(Larger(a, b), A \cup B)
<1>1. \A y \in A \cup B : y \in Nat /\ y > -1 OBVIOUS
<1>2. None = -1 BY DEF None
<1>3. ASSUME IsLeast(a, A), IsLeast(b, B) PROVE IsLeast(Smaller(a, b), A \cup B)
  <2>1. CASE A = {} BY <1>1, <1>2, <1>3, <2>1 DEF IsLeast, Smaller
  <2>2. CASE B = {} /\ A # {} BY <1>1, <1>2, <1>3, <2>2 DEF IsLeast, Smaller
  <2>3. CASE A # {} /\ B # {}
    <3>0. /\ a \in A /\ (\A y \in A : a <= y)
          /\ b \in B /\ (\A y \in B : b <= y)
      BY <1>3, <2>3 DEF IsLeast
    <3>1. /\ a \in A /\ (\A y \in A : a <= y) /\ a \in Nat /\ a # None
          /\ b \in B /\ (\A y \in B : b <= y) /\ b \in Nat /\ b # None
      BY <1>1, <1>2, <3>0
    <3>2. CASE a < b
      <4>1. \A y \in A \cup B : a <= y BY <1>1, <3>1, <3>2
      <4> QED BY <3>1, <3>2, <4>1 DEF IsLeast, Smaller
    <3>3. CASE ~ (a < b)
      <4>1. \A y \in A \cup B : b <= y BY <1>1, <3>1, <3>3
      <4> QED BY <3>1, <3>3, <4>1 DEF IsLeast, Smaller
    <3> QED BY <3>2, <3>3
  <2> QED BY <2>1, <2>2, <2>3
<1>4. ASSUME IsGreatest(a, A), IsGreatest(b, B)
      PROVE  IsGreatest(Larger(a, b), A \cup B)
  <2>1. CASE A = {} /\ B = {} BY <1>2, <1>4, <2>1 DEF IsGreatest, Larger
  <2>2. CASE A = {} /\ B # {}
    <3>1. a = -1 /\ b \in B /\ A \cup B = B /\ b \in Nat
      BY <1>2, <1>4, <2>2 DEF IsGreatest
    <3>2. Larger(a, b) = b BY <3>1 DEF Larger
    <3> QED BY <1>4, <3>1, <3>2
  <2>3. CASE B = {} /\ A # {} BY <1>1, <1>2, <1>4, <2>3 DEF IsGreatest, Larger
  <2>4. CASE A # {} /\ B # {}
    <3>1. /\ a \in A /\ (\A y \in A : y <= a) /\ a \in Nat
          /\ b \in B /\ (\A y \in B : y <= b) /\ b \in Nat
      BY <1>1, <1>4, <2>4 DEF IsGreatest
    <3>2. CASE a > b
      <4>1. \A y \in A \cup B : y <= a BY <1>1, <3>1, <3>2
      <4> QED BY <3>1, <3>2, <4>1 DEF IsGreatest, Larger
    <3>3. CASE ~ (a > b)
      <4>1. \A y \in A \cup B : y <= b BY <1>1, <3>1, <3>3
      <4> QED BY <3>1, <3>3, <4>1 DEF IsGreatest, Larger
    <3> QED BY <3>2, <3>3
  <2> QED BY <2>1, <2>2, <2>3, <2>4
<1> QED BY <1>3, <1>4

LEMMA ExtremesOfOne ==
  ASSUME NEW v \in Nat
  PROVE  IsLeast(v, {v}) /\ IsGreatest(v, {v})
BY DEF IsLeast, IsGreatest

Histograms ==
  [counts : [Buckets -> Nat], count : Nat, total : Nat,
   min_ms : Nat \cup {None}, max_ms : Nat \cup {None}, overflow_count : Nat]

LEMMA HistogramType ==
  /\ Empty \in Histograms
  /\ \A h \in Histograms, v \in Nat : Record(h, v) \in Histograms
  /\ \A h, g \in Histograms : MergeHistograms(h, g) \in Histograms
<1>1. Empty \in Histograms BY DEF Histograms, Empty
<1>2. ASSUME NEW h \in Histograms, NEW v \in Nat PROVE Record(h, v) \in Histograms
  <2>1. [h.counts EXCEPT ![Index(v)] = @ + 1] \in [Buckets -> Nat]
    <3> DEFINE c == h.counts
    <3>1. c \in [Buckets -> Nat] BY DEF Histograms
    <3>2. \A b \in Buckets : c[b] + 1 \in Nat BY <3>1
    <3> HIDE DEF c
    <3>3. [c EXCEPT ![Index(v)] = c[Index(v)] + 1] \in [Buckets -> Nat]
      BY <3>1, <3>2
    <3> QED BY <3>3 DEF c
  <2>2. Smaller(h.min_ms, v) \in Nat \cup {None} BY DEF Histograms, Smaller
  <2>3. Larger(h.max_ms, v) \in Nat \cup {None} BY DEF Histograms, Larger
  <2>4. /\ h.count + 1 \in Nat /\ h.total + v \in Nat
        /\ h.overflow_count + (IF v > Range_ms THEN 1 ELSE 0) \in Nat
    BY DEF Histograms
  <2> QED BY <2>1, <2>2, <2>3, <2>4 DEF Record, Histograms
<1>3. ASSUME NEW h \in Histograms, NEW g \in Histograms
      PROVE  MergeHistograms(h, g) \in Histograms
  <2>1. [b \in Buckets |-> h.counts[b] + g.counts[b]] \in [Buckets -> Nat]
    BY DEF Histograms
  <2>2. Smaller(h.min_ms, g.min_ms) \in Nat \cup {None} BY DEF Histograms, Smaller
  <2>3. Larger(h.max_ms, g.max_ms) \in Nat \cup {None} BY DEF Histograms, Larger
  <2>4. /\ h.count + g.count \in Nat /\ h.total + g.total \in Nat
        /\ h.overflow_count + g.overflow_count \in Nat
    BY DEF Histograms
  <2> QED BY <2>1, <2>2, <2>3, <2>4 DEF MergeHistograms, Histograms
<1> QED BY <1>1, <1>2, <1>3

LEMMA RecordIsFold ==
  ASSUME NEW S, IsFiniteSet(S), NEW values \in [S -> Nat]
  PROVE  \E it : /\ IsFold(S, Histograms, Empty,
                           [a \in S \X Histograms |-> Record(a[2], values[a[1]])], it)
                 /\ FromValues(values) = it[S]
<1> DEFINE step == [a \in S \X Histograms |-> Record(a[2], values[a[1]])]
           Unfold(g) == [s \in SUBSET S |->
                         IF s = {} THEN Empty
                         ELSE Record(g[s \ {One(s)}], values[One(s)])]
           it == CHOOSE g : g = Unfold(g)
<1>1. step \in [S \X Histograms -> Histograms] BY HistogramType
<1>2. \A i \in S, h \in Histograms : step[<<i, h>>] = Record(h, values[i]) OBVIOUS
<1>2a. Empty \in Histograms BY HistogramType
<1>3. FromValues(values) = it[S]
  BY DEF FromValues, FoldFunction, FoldFunctionOnSet, MapThenFoldSet, One
<1> HIDE DEF step
<1>4. \E g : g = Unfold(g)
  <2>1. PICK g : IsFold(S, Histograms, Empty, step, g)
    <3> HIDE DEF Unfold
    <3> QED BY <1>1, <1>2a, FoldExists
  <2>2. ASSUME NEW s \in SUBSET S, s # {}
        PROVE  g[s] = Record(g[s \ {One(s)}], values[One(s)])
    <3>1. One(s) \in S /\ g[s \ {One(s)}] \in Histograms
      BY <2>1, <2>2, OneIsIn DEF IsFold
    <3> QED BY <1>2, <2>1, <2>2, <3>1 DEF IsFold
  <2>3. g = [s \in SUBSET S |-> g[s]] BY <2>1 DEF IsFold
  <2>4. \A s \in SUBSET S : g[s] = Unfold(g)[s] BY <2>1, <2>2 DEF IsFold
  <2>5. g = Unfold(g) BY <2>3, <2>4
  <2> QED BY <2>5
<1>5. it = Unfold(it) BY <1>4
<1> HIDE DEF it
<1>6. it = [s \in SUBSET S |-> it[s]] /\ it[{}] = Empty BY <1>5
<1>7. ASSUME NEW s \in (SUBSET S) \ {{}}, it[s \ {One(s)}] \in Histograms
      PROVE  it[s] = step[<<One(s), it[s \ {One(s)}]>>]
  <2>1. One(s) \in S BY OneIsIn
  <2>2. it[s] = Unfold(it)[s] BY <1>5
  <2> QED BY <1>2, <1>7, <2>1, <2>2
<1>8. IsFoldAt(S, Histograms, Empty, step, it) BY <1>6, <1>7 DEF IsFoldAt
<1>9. IsFold(S, Histograms, Empty, step, it) BY <1>1, <1>2a, <1>8, FoldIs
<1> QED BY <1>3, <1>9 DEF step

LEMMA MergeIsFold ==
  ASSUME NEW S, IsFiniteSet(S), NEW parts \in [S -> Histograms]
  PROVE  \E it : /\ IsFold(S, Histograms, Empty,
                           [a \in S \X Histograms |->
                              MergeHistograms(a[2], parts[a[1]])], it)
                 /\ MergeAll(parts) = it[S]
<1> DEFINE step == [a \in S \X Histograms |-> MergeHistograms(a[2], parts[a[1]])]
           Unfold(g) == [s \in SUBSET S |->
                         IF s = {} THEN Empty
                         ELSE MergeHistograms(g[s \ {One(s)}], parts[One(s)])]
           it == CHOOSE g : g = Unfold(g)
<1>1. step \in [S \X Histograms -> Histograms] BY HistogramType
<1>2. \A i \in S, h \in Histograms : step[<<i, h>>] = MergeHistograms(h, parts[i])
  OBVIOUS
<1>2a. Empty \in Histograms BY HistogramType
<1>3. MergeAll(parts) = it[S]
  BY DEF MergeAll, FoldFunction, FoldFunctionOnSet, MapThenFoldSet, One
<1> HIDE DEF step
<1>4. \E g : g = Unfold(g)
  <2>1. PICK g : IsFold(S, Histograms, Empty, step, g)
    <3> HIDE DEF Unfold
    <3> QED BY <1>1, <1>2a, FoldExists
  <2>2. ASSUME NEW s \in SUBSET S, s # {}
        PROVE  g[s] = MergeHistograms(g[s \ {One(s)}], parts[One(s)])
    <3>1. One(s) \in S /\ g[s \ {One(s)}] \in Histograms
      BY <2>1, <2>2, OneIsIn DEF IsFold
    <3> QED BY <1>2, <2>1, <2>2, <3>1 DEF IsFold
  <2>3. g = [s \in SUBSET S |-> g[s]] BY <2>1 DEF IsFold
  <2>4. \A s \in SUBSET S : g[s] = Unfold(g)[s] BY <2>1, <2>2 DEF IsFold
  <2>5. g = Unfold(g) BY <2>3, <2>4
  <2> QED BY <2>5
<1>5. it = Unfold(it) BY <1>4
<1> HIDE DEF it
<1>6. it = [s \in SUBSET S |-> it[s]] /\ it[{}] = Empty BY <1>5
<1>7. ASSUME NEW s \in (SUBSET S) \ {{}}, it[s \ {One(s)}] \in Histograms
      PROVE  it[s] = step[<<One(s), it[s \ {One(s)}]>>]
  <2>1. One(s) \in S BY OneIsIn
  <2>2. it[s] = Unfold(it)[s] BY <1>5
  <2> QED BY <1>2, <1>7, <2>1, <2>2
<1>8. IsFoldAt(S, Histograms, Empty, step, it) BY <1>6, <1>7 DEF IsFoldAt
<1>9. IsFold(S, Histograms, Empty, step, it) BY <1>1, <1>2a, <1>8, FoldIs
<1> QED BY <1>3, <1>9 DEF step

(* A histogram counts what was recorded, and has its sum and its extremes. *)
LEMMA HistogramOfValues ==
  ASSUME NEW S, IsFiniteSet(S), NEW values \in [S -> Nat]
  PROVE  LET h == FromValues(values)
             V == {values[i] : i \in S}
         IN /\ h \in Histograms
            /\ h.count = Cardinality(S) /\ h.total = SumFunctionOnSet(values, S)
            /\ IsLeast(h.min_ms, V) /\ IsGreatest(h.max_ms, V)
<1> DEFINE step == [a \in S \X Histograms |-> Record(a[2], values[a[1]])]
           V(s) == {values[i] : i \in s}
<1>1. PICK it : /\ IsFold(S, Histograms, Empty, step, it)
                /\ FromValues(values) = it[S]
  BY RecordIsFold
<1>2. \A i \in S, h \in Histograms : step[<<i, h>>] = Record(h, values[i]) OBVIOUS
<1> HIDE DEF step
<1> DEFINE Good(s) == /\ it[s].count = Cardinality(s)
                      /\ it[s].total = SumFunctionOnSet(values, s)
                      /\ IsLeast(it[s].min_ms, V(s))
                      /\ IsGreatest(it[s].max_ms, V(s))
           T == {s \in SUBSET S : Good(s)}
<1>3. ASSUME NEW s \in SUBSET S, \A i \in s : s \ {i} \in T PROVE s \in T
  <2>1. CASE s = {}
    <3>1. it[s] = Empty BY <1>1, <2>1 DEF IsFold
    <3>2. V(s) = {} BY <2>1
    <3>3. SumFunctionOnSet(values, s) = 0 BY <2>1, SumOfNone
    <3>4. Cardinality(s) = 0 BY <2>1, FS_EmptySet
    <3> HIDE DEF V
    <3>5. Good(s) BY <3>1, <3>2, <3>3, <3>4 DEF Empty, IsLeast, IsGreatest
    <3> QED BY <3>5
  <2>2. CASE s # {}
    <3> DEFINE c == One(s)
               r == it[s \ {c}]
               v == values[c]
    <3>1. c \in s /\ s \ {c} \in SUBSET S BY <2>2, OneIsIn
    <3>2. r \in Histograms BY <1>1, <3>1 DEF IsFold
    <3>3. it[s] = step[<<c, r>>] BY <1>1, <2>2 DEF IsFold
    <3>4. it[s] = Record(r, v) BY <1>2, <3>1, <3>2, <3>3
    <3>5. Good(s \ {c}) BY <1>3, <3>1
    <3>6. v \in Nat /\ V(s) = V(s \ {c}) \cup {v} /\ V(s \ {c}) \subseteq Nat
      BY <3>1
    <3>7. IsFiniteSet(s) /\ \A i \in s : values[i] \in Int BY FS_Subset
    <3>8. SumFunctionOnSet(values, s) = v + SumFunctionOnSet(values, s \ {c})
      BY <3>1, <3>7, SumOfSome
    <3>9. Cardinality(s) \in Nat /\ Cardinality(s \ {c}) = Cardinality(s) - 1
      BY <3>1, Sizes
    <3>10. /\ it[s].count = r.count + 1 /\ it[s].total = r.total + v
           /\ it[s].min_ms = Smaller(r.min_ms, v)
           /\ it[s].max_ms = Larger(r.max_ms, v)
      BY <3>4 DEF Record
    <3>11. r.total \in Nat BY <3>2 DEF Histograms
    <3>12. it[s].count = Cardinality(s) BY <3>5, <3>9, <3>10
    <3>13. it[s].total = SumFunctionOnSet(values, s) BY <3>5, <3>6, <3>8, <3>10, <3>11
    <3> DEFINE W == V(s \ {c})
    <3>14. IsLeast(r.min_ms, W) /\ IsGreatest(r.max_ms, W) BY <3>5
    <3>15. W \subseteq Nat /\ v \in Nat /\ {v} \subseteq Nat /\ V(s) = W \cup {v}
      BY <3>6
    <3> HIDE DEF W, v, r, V
    <3>16. IsLeast(v, {v}) /\ IsGreatest(v, {v}) BY <3>15, ExtremesOfOne
    <3>17. /\ IsLeast(Smaller(r.min_ms, v), W \cup {v})
           /\ IsGreatest(Larger(r.max_ms, v), W \cup {v})
      BY <3>14, <3>15, <3>16, ExtremesOfBoth
    <3>18. Good(s) BY <3>10, <3>12, <3>13, <3>15, <3>17
    <3> QED BY <3>18
  <2> QED BY <2>1, <2>2
<1>4. S \in T
  <2> HIDE DEF T
  <2>1. SUBSET S \subseteq T BY <1>3, SetUpTo
  <2> QED BY <2>1
<1>5. it[S] \in Histograms BY <1>1 DEF IsFold
<1> QED BY <1>1, <1>4, <1>5

(* Histograms that are merged are as one histogram of all.                 *)
IsHistogramOf(h, C, parts, V) ==
  /\ h \in Histograms
  /\ h.count = SumFunctionOnSet([c \in C |-> parts[c].count], C)
  /\ h.total = SumFunctionOnSet([c \in C |-> parts[c].total], C)
  /\ IsLeast(h.min_ms, UNION {V[c] : c \in C})
  /\ IsGreatest(h.max_ms, UNION {V[c] : c \in C})

LEMMA HistogramOfParts ==
  ASSUME NEW C, IsFiniteSet(C), NEW parts \in [C -> Histograms],
         NEW V, \A c \in C : /\ V[c] \subseteq Nat
                             /\ IsLeast(parts[c].min_ms, V[c])
                             /\ IsGreatest(parts[c].max_ms, V[c])
  PROVE  IsHistogramOf(MergeAll(parts), C, parts, V)
<1> DEFINE step == [a \in C \X Histograms |-> MergeHistograms(a[2], parts[a[1]])]
           counts == [c \in C |-> parts[c].count]
           totals == [c \in C |-> parts[c].total]
           All(s) == UNION {V[c] : c \in s}
<1>1. PICK it : /\ IsFold(C, Histograms, Empty, step, it)
                /\ MergeAll(parts) = it[C]
  BY MergeIsFold
<1>2. \A i \in C, h \in Histograms : step[<<i, h>>] = MergeHistograms(h, parts[i])
  OBVIOUS
<1> HIDE DEF step
<1>0. \A c \in C : /\ counts[c] = parts[c].count /\ totals[c] = parts[c].total
                   /\ parts[c].count \in Nat /\ parts[c].total \in Nat
  BY DEF Histograms
<1> HIDE DEF counts, totals
<1> DEFINE Good(s) == /\ it[s].count = SumFunctionOnSet(counts, s)
                      /\ it[s].total = SumFunctionOnSet(totals, s)
                      /\ IsLeast(it[s].min_ms, All(s))
                      /\ IsGreatest(it[s].max_ms, All(s))
           T == {s \in SUBSET C : Good(s)}
<1>3. ASSUME NEW s \in SUBSET C, \A c \in s : s \ {c} \in T PROVE s \in T
  <2>1. CASE s = {}
    <3>1. it[s] = Empty BY <1>1, <2>1 DEF IsFold
    <3>2. All(s) = {} BY <2>1
    <3>3. SumFunctionOnSet(counts, s) = 0 BY <2>1, SumOfNone
    <3>4. SumFunctionOnSet(totals, s) = 0 BY <2>1, SumOfNone
    <3> HIDE DEF All
    <3>5. Good(s) BY <3>1, <3>2, <3>3, <3>4 DEF Empty, IsLeast, IsGreatest
    <3> QED BY <3>5
  <2>2. CASE s # {}
    <3> DEFINE c == One(s)
               r == it[s \ {c}]
               v == parts[c]
    <3>1. c \in s /\ s \ {c} \in SUBSET C BY <2>2, OneIsIn
    <3>2. r \in Histograms BY <1>1, <3>1 DEF IsFold
    <3>3. it[s] = step[<<c, r>>] BY <1>1, <2>2 DEF IsFold
    <3>4. it[s] = MergeHistograms(r, v) BY <1>2, <3>1, <3>2, <3>3
    <3>5. Good(s \ {c}) BY <1>3, <3>1
    <3>6. /\ V[c] \subseteq Nat /\ All(s) = All(s \ {c}) \cup V[c]
          /\ All(s \ {c}) \subseteq Nat
      BY <3>1
    <3>7. IsFiniteSet(s) /\ \A i \in s : counts[i] \in Int /\ totals[i] \in Int
      BY <1>0, FS_Subset
    <3>8. SumFunctionOnSet(counts, s) = v.count + SumFunctionOnSet(counts, s \ {c})
      BY <1>0, <3>1, <3>7, SumOfSome
    <3>9. SumFunctionOnSet(totals, s) = v.total + SumFunctionOnSet(totals, s \ {c})
      BY <1>0, <3>1, <3>7, SumOfSome
    <3>10. /\ it[s].count = r.count + v.count /\ it[s].total = r.total + v.total
           /\ it[s].min_ms = Smaller(r.min_ms, v.min_ms)
           /\ it[s].max_ms = Larger(r.max_ms, v.max_ms)
      BY <3>4 DEF MergeHistograms
    <3>11. r.total \in Nat /\ r.count \in Nat /\ v.count \in Nat /\ v.total \in Nat
      BY <1>0, <3>1, <3>2 DEF Histograms
    <3>12. it[s].count = SumFunctionOnSet(counts, s) BY <3>5, <3>8, <3>10, <3>11
    <3>13. it[s].total = SumFunctionOnSet(totals, s) BY <3>5, <3>9, <3>10, <3>11
    <3> DEFINE W == All(s \ {c})
               X == V[c]
    <3>14. IsLeast(r.min_ms, W) /\ IsGreatest(r.max_ms, W) BY <3>5
    <3>15. W \subseteq Nat /\ X \subseteq Nat /\ All(s) = W \cup X BY <3>6
    <3>16. IsLeast(v.min_ms, X) /\ IsGreatest(v.max_ms, X) BY <3>1
    <3> HIDE DEF W, X, v, r, All
    <3>17. /\ IsLeast(Smaller(r.min_ms, v.min_ms), W \cup X)
           /\ IsGreatest(Larger(r.max_ms, v.max_ms), W \cup X)
      BY <3>14, <3>15, <3>16, ExtremesOfBoth
    <3>18. Good(s) BY <3>10, <3>12, <3>13, <3>15, <3>17
    <3> QED BY <3>18
  <2> QED BY <2>1, <2>2
<1>4. C \in T
  <2> HIDE DEF T
  <2>1. SUBSET C \subseteq T BY <1>3, SetUpTo
  <2> QED BY <2>1
<1>5. it[C] \in Histograms BY <1>1 DEF IsFold
<1> QED BY <1>1, <1>4, <1>5 DEF counts, totals, IsHistogramOf

-------------------------------------------------------------------------------
(* The layout of the buckets: octaves, each twice as far as the one before  *)
(* and cut into as many slices, so that an index is a pair of both.        *)

(* Where the quotient is.                                                  *)
LEMMA QuotientIs ==
  ASSUME NEW a \in Nat, NEW d \in Nat \ {0}, NEW q \in Nat
  PROVE  (d * q <= a /\ a < d * q + d) <=> a \div d = q
<1>1. PICK p \in Nat : p = a \div d OBVIOUS
<1>2. d * (a \div d) <= a OBVIOUS
<1>3. a < d * (a \div d) + d OBVIOUS
<1>4. d * p <= a /\ a < d * p + d BY <1>1, <1>2, <1>3
<1>5. d * p \in Nat /\ d * q \in Nat OBVIOUS
<1>6. ASSUME p < q PROVE d * p + d <= d * q
  <2>1. d * (p + 1) <= d * q BY <1>6
  <2>2. d * (p + 1) = d * p + d OBVIOUS
  <2> QED BY <2>1, <2>2
<1>7. ASSUME q < p PROVE d * q + d <= d * p
  <2>1. d * (q + 1) <= d * p BY <1>7
  <2>2. d * (q + 1) = d * q + d OBVIOUS
  <2> QED BY <2>1, <2>2
<1>8. ASSUME d * q <= a, a < d * q + d PROVE p = q
  <2>1. ~ (p < q) BY <1>4, <1>5, <1>6, <1>8
  <2>2. ~ (q < p) BY <1>4, <1>5, <1>7, <1>8
  <2> QED BY <2>1, <2>2
<1>9. ASSUME p = q PROVE d * q <= a /\ a < d * q + d BY <1>4, <1>9
<1> QED BY <1>1, <1>8, <1>9

LEMMA Reduce ==
  ASSUME NEW k \in Nat \ {0}, NEW x \in Nat
  PROVE  (k * x) \div k = x
<1>1. k * x \in Nat /\ k * x <= k * x /\ k * x < k * x + k OBVIOUS
<1> QED BY <1>1, QuotientIs

LEMMA Cancel ==
  ASSUME NEW k \in Nat \ {0}, NEW x \in Nat, NEW d \in Nat \ {0},
         NEW a, a = x * k, NEW m, m = k * d
  PROVE  a \div m = x \div d
<1> PICK q \in Nat : q = x \div d OBVIOUS
<1>1. d * q <= x /\ x < d * q + d BY QuotientIs
<1>2. k * (d * q) <= k * x BY <1>1
<1>3. k * x < k * (d * q + d) BY <1>1
<1>4. m \in Nat \ {0} OBVIOUS
<1>5. a = k * x /\ a \in Nat OBVIOUS
<1>6. k * (d * q) = m * q OBVIOUS
<1>7. k * (d * q + d) = m * q + m
  <2> PICK y \in Nat : y = d * q OBVIOUS
  <2>1. k * (y + d) = k * y + k * d OBVIOUS
  <2> QED BY <1>6, <2>1
<1>8. m * q <= a /\ a < m * q + m BY <1>2, <1>3, <1>5, <1>6, <1>7
<1> QED BY <1>4, <1>5, <1>8, QuotientIs

LEMMA BaseIs ==
  /\ Base \in [0 .. MaxExponent -> Nat]
  /\ Base[0] = LowestMs
  /\ \A e \in 1 .. MaxExponent : Base[e] = 2 * Base[e - 1]
<1> DEFINE Octaves(k) ==
             {g \in [0 .. k -> Nat] :
                \A e \in 0 .. k : g[e] = IF e = 0 THEN LowestMs ELSE 2 * g[e - 1]}
           Good == {k \in 0 .. MaxExponent : \E g : g \in Octaves(k)}
<1>0. LowestMs \in Nat /\ MaxExponent \in Nat BY LayoutAssumption
<1>1. 0 \in Good
  <2>1. [e \in 0 .. 0 |-> LowestMs] \in Octaves(0) BY <1>0
  <2> QED BY <1>0, <2>1
<1>2. ASSUME NEW k \in 1 .. MaxExponent, k - 1 \in Good PROVE k \in Good
  <2>1. PICK g : g \in Octaves(k - 1) BY <1>2
  <2> DEFINE next == [e \in 0 .. k |-> IF e = k THEN 2 * g[k - 1] ELSE g[e]]
  <2>2. g \in [0 .. k - 1 -> Nat] /\ k - 1 \in 0 .. k - 1 BY <1>0, <2>1
  <2>3. next \in [0 .. k -> Nat]
    <3>1. \A e \in 0 .. k : e # k => e \in 0 .. k - 1 BY <1>0
    <3>2. 2 * g[k - 1] \in Nat BY <2>2
    <3> QED BY <2>2, <3>1, <3>2
  <2>4. ASSUME NEW e \in 0 .. k
        PROVE  next[e] = IF e = 0 THEN LowestMs ELSE 2 * next[e - 1]
    <3>1. CASE e = k
      <4>1. k - 1 \in 0 .. k /\ k - 1 # k /\ k # 0 BY <1>0
      <4> QED BY <3>1, <4>1
    <3>2. CASE e # k
      <4>1. e \in 0 .. k - 1 /\ next[e] = g[e] BY <1>0, <3>2
      <4>2. ASSUME e # 0 PROVE next[e - 1] = g[e - 1]
        <5>1. e - 1 \in 0 .. k /\ e - 1 # k BY <1>0, <4>2
        <5> QED BY <5>1
      <4> HIDE DEF next
      <4> QED BY <2>1, <4>1, <4>2
    <3> QED BY <3>1, <3>2
  <2> HIDE DEF next
  <2>5. next \in Octaves(k) BY <2>3, <2>4
  <2> HIDE DEF Octaves
  <2> QED BY <1>0, <2>5
<1>3. MaxExponent \in Good
  <2> HIDE DEF Good
  <2> QED BY <1>0, <1>1, <1>2, UpTo
<1>4. PICK g : g \in Octaves(MaxExponent) BY <1>3
<1>5. g = [e \in 0 .. MaxExponent |-> IF e = 0 THEN LowestMs ELSE 2 * g[e - 1]]
  BY <1>4
<1>6. Base = [e \in 0 .. MaxExponent |-> IF e = 0 THEN LowestMs ELSE 2 * Base[e - 1]]
  BY <1>5 DEF Base
<1>7. Base[0] = LowestMs /\ \A e \in 1 .. MaxExponent : Base[e] = 2 * Base[e - 1]
  BY <1>0, <1>6
<1>8. Base \in [0 .. MaxExponent -> Nat]
  <2> DEFINE T == {e \in 0 .. MaxExponent : Base[e] \in Nat}
  <2>1. 0 \in T /\ \A e \in 1 .. MaxExponent : e - 1 \in T => e \in T
    BY <1>0, <1>7
  <2>2. 0 .. MaxExponent \subseteq T
    <3> HIDE DEF T
    <3> QED BY <1>0, <2>1, UpTo
  <2>3. DOMAIN Base = 0 .. MaxExponent BY <1>6
  <2>4. Base = [e \in 0 .. MaxExponent |-> Base[e]] BY <1>6
  <2> QED BY <2>2, <2>4
<1> QED BY <1>7, <1>8

(* The slices of an octave: their number is fixed, their width doubles.    *)
Slice(e) == Base[e] \div SubBuckets

LEMMA OctaveFacts ==
  /\ \A e \in 0 .. MaxExponent :
       /\ Base[e] \in Nat \ {0} /\ Slice(e) \in Nat \ {0}
       /\ Base[e] = SubBuckets * Slice(e)
  /\ \A e \in 0 .. MaxExponent : \A d \in 0 .. e : Base[d] <= Base[e]
<1>0. /\ SubBuckets \in Nat \ {0} /\ MaxExponent \in Nat \ {0}
      /\ LowestMs \in Nat \ {0} /\ LowestMs % (2 * SubBuckets) = 0
  BY LayoutAssumption
<1>1. /\ Base \in [0 .. MaxExponent -> Nat] /\ Base[0] = LowestMs
      /\ \A e \in 1 .. MaxExponent : Base[e] = 2 * Base[e - 1]
  BY BaseIs
<1> DEFINE Whole(n) == n # 0 /\ \E q \in Nat \ {0} : n = SubBuckets * q
           T == {e \in 0 .. MaxExponent : Whole(Base[e])}
<1>2. 0 \in T
  <2>1. 2 * SubBuckets \in Nat \ {0} BY <1>0
  <2> PICK q \in Nat : q = LowestMs \div (2 * SubBuckets) BY <1>0, <2>1
  <2>2. (2 * SubBuckets) * q = LowestMs BY <1>0, <2>1, DivisionFact
  <2>3. q # 0 BY <1>0, <2>2
  <2>4. SubBuckets * (2 * q) = LowestMs /\ 2 * q \in Nat \ {0} BY <1>0, <2>2, <2>3
  <2>5. Whole(LowestMs) BY <1>0, <2>4
  <2> HIDE DEF Whole
  <2> QED BY <1>0, <1>1, <2>5
<1>3. ASSUME NEW e \in 1 .. MaxExponent, e - 1 \in T PROVE e \in T
  <2>1. PICK q \in Nat \ {0} : Base[e - 1] = SubBuckets * q BY <1>3
  <2>2. Base[e] = 2 * (SubBuckets * q) BY <1>1, <2>1
  <2>3. 2 * (SubBuckets * q) = SubBuckets * (2 * q) /\ 2 * q \in Nat \ {0}
    BY <1>0
  <2>4. SubBuckets * (2 * q) # 0 BY <1>0
  <2> QED BY <2>2, <2>3, <2>4
<1>4. 0 .. MaxExponent \subseteq T
  <2> HIDE DEF T
  <2> QED BY <1>0, <1>2, <1>3, UpTo
<1>5. ASSUME NEW e \in 0 .. MaxExponent
      PROVE  /\ Base[e] \in Nat \ {0} /\ Slice(e) \in Nat \ {0}
             /\ Base[e] = SubBuckets * Slice(e)
  <2>1. PICK q \in Nat \ {0} : Base[e] = SubBuckets * q /\ Base[e] # 0 BY <1>4
  <2>2. Slice(e) = q BY <1>0, <2>1, Reduce DEF Slice
  <2> QED BY <1>1, <2>1, <2>2
<1>6. ASSUME NEW e \in 0 .. MaxExponent, NEW d \in 0 .. e PROVE Base[d] <= Base[e]
  <2> DEFINE U == {k \in 0 .. MaxExponent : \A i \in 0 .. k : Base[i] <= Base[k]}
  <2>1. 0 \in U BY <1>0, <1>1
  <2>2. ASSUME NEW k \in 1 .. MaxExponent, k - 1 \in U PROVE k \in U
    <3>1. \A i \in 0 .. k : i = k \/ i \in 0 .. k - 1 BY <1>0
    <3>2. /\ Base[k] = 2 * Base[k - 1] /\ Base[k - 1] \in Nat /\ Base[k] \in Nat
          /\ \A i \in 0 .. k - 1 : Base[i] \in Nat
      BY <1>0, <1>1
    <3>3. \A i \in 0 .. k - 1 : Base[i] <= Base[k] BY <2>2, <3>2
    <3> QED BY <3>1, <3>2, <3>3
  <2>3. 0 .. MaxExponent \subseteq U
    <3> HIDE DEF U
    <3> QED BY <1>0, <2>1, <2>2, UpTo
  <2> QED BY <2>3
<1> QED BY <1>5, <1>6

(* A bucket is a slice of an octave.                                       *)
LEMMA BucketFacts ==
  ASSUME NEW e \in 0 .. MaxExponent - 1, NEW s \in 0 .. SubBuckets - 1
  PROVE  LET b == e * SubBuckets + s
         IN /\ b \in Buckets /\ Width(b) = Slice(e)
            /\ Lower(b) = Base[e] + Slice(e) * s
<1>0. SubBuckets \in Nat \ {0} /\ MaxExponent \in Nat \ {0} BY LayoutAssumption
<1>1. /\ e \in 0 .. MaxExponent /\ Slice(e) \in Nat \ {0}
      /\ Base[e] = SubBuckets * Slice(e)
  BY <1>0, OctaveFacts
<1> PICK w \in Nat \ {0} : w = Slice(e) BY <1>1
<1> PICK b \in Nat : b = e * SubBuckets + s BY <1>0
<1>2. b \in Buckets
  <2>1. (e + 1) * SubBuckets <= MaxExponent * SubBuckets BY <1>0
  <2>2. (e + 1) * SubBuckets = e * SubBuckets + SubBuckets BY <1>0
  <2>3. e * SubBuckets \in Nat /\ MaxExponent * SubBuckets \in Nat BY <1>0
  <2> QED BY <1>0, <2>1, <2>2, <2>3 DEF Buckets, Top
<1>3. b \div SubBuckets = e
  <2>1. SubBuckets * e = e * SubBuckets /\ SubBuckets * e \in Nat BY <1>0
  <2>2. SubBuckets * e <= b /\ b < SubBuckets * e + SubBuckets BY <1>0, <2>1
  <2> QED BY <1>0, <2>2, QuotientIs
<1>4. b % SubBuckets = s
  <2>1. b - SubBuckets * (b \div SubBuckets) = b % SubBuckets BY <1>0, SMTT(20)
  <2>2. SubBuckets * e = e * SubBuckets /\ SubBuckets * e \in Nat BY <1>0
  <2> QED BY <1>0, <1>3, <2>1, <2>2
<1>5. Lower(b) = Base[e] + w * s
  <2> PICK k \in Nat : k = SubBuckets + s BY <1>0
  <2>1. Lower(b) = ((SubBuckets * w) * k) \div SubBuckets BY <1>1, <1>3, <1>4 DEF Lower
  <2>2. (SubBuckets * w) * k = SubBuckets * (w * k) /\ w * k \in Nat BY <1>0
  <2>3. Lower(b) = w * k
    <3> PICK x \in Nat : x = w * k BY <2>2
    <3>1. (SubBuckets * x) \div SubBuckets = x BY <1>0, Reduce
    <3> QED BY <2>1, <2>2, <3>1
  <2>4. w * k = SubBuckets * w + w * s BY <1>0
  <2> QED BY <1>1, <2>3, <2>4
<1>6. Width(b) = w BY <1>3 DEF Width, Slice
<1> QED BY <1>2, <1>5, <1>6

(* Where the bucket of a latency within the range is.                      *)
Places(value, e, s) ==
  /\ e \in 0 .. MaxExponent - 1 /\ s \in 0 .. SubBuckets - 1
  /\ Base[e] <= value /\ value < Base[e + 1]
  /\ Base[e] + Slice(e) * s <= value
  /\ value < Base[e] + Slice(e) * s + Slice(e)
  /\ Index(value) = e * SubBuckets + s

LEMMA Placed ==
  ASSUME NEW value \in Nat, LowestMs < value, value < Range_ms
  PROVE  \E e, s : Places(value, e, s)
<1>0. /\ SubBuckets \in Nat \ {0} /\ MaxExponent \in Nat \ {0} /\ LowestMs \in Nat
  BY LayoutAssumption
<1>1. /\ Base \in [0 .. MaxExponent -> Nat] /\ Base[0] = LowestMs
      /\ \A e \in 1 .. MaxExponent : Base[e] = 2 * Base[e - 1]
  BY BaseIs
<1>2. \E e \in 0 .. MaxExponent - 1 : Base[e] <= value /\ value < Base[e + 1]
  <2> SUFFICES ASSUME \A e \in 0 .. MaxExponent - 1 : ~ (Base[e] <= value /\ value < Base[e + 1])
               PROVE  FALSE
    OBVIOUS
  <2> DEFINE T == {k \in 0 .. MaxExponent : Base[k] <= value}
  <2>1. 0 \in T BY <1>0, <1>1
  <2>2. ASSUME NEW k \in 1 .. MaxExponent, k - 1 \in T PROVE k \in T
    <3>1. k - 1 \in 0 .. MaxExponent - 1 /\ (k - 1) + 1 = k BY <1>0
    <3>2. ~ (value < Base[k]) BY <2>2, <3>1
    <3>3. Base[k] \in Nat BY <1>0, <1>1
    <3> QED BY <1>0, <3>2, <3>3
  <2>3. MaxExponent \in T
    <3> HIDE DEF T
    <3> QED BY <1>0, <2>1, <2>2, UpTo
  <2>4. Range_ms \in Nat BY <1>0, <1>1 DEF Range_ms
  <2> QED BY <2>3, <2>4 DEF Range_ms
<1> DEFINE e == CHOOSE e \in 0 .. MaxExponent - 1 :
                  Base[e] <= value /\ value < Base[e + 1]
<1>3. e \in 0 .. MaxExponent - 1 /\ Base[e] <= value /\ value < Base[e + 1]
  BY <1>2
<1>4. Index(value) = e * SubBuckets + ((value - Base[e]) * SubBuckets) \div Base[e]
  <2>1. ~ (value <= LowestMs) /\ ~ (value >= Range_ms)
    <3>1. Range_ms \in Nat BY <1>0, <1>1 DEF Range_ms
    <3> QED BY <1>0, <3>1
  <2> QED BY <2>1 DEF Index
<1> HIDE DEF e
<1>5. /\ e \in 0 .. MaxExponent /\ e + 1 \in 1 .. MaxExponent /\ (e + 1) - 1 = e
  BY <1>0, <1>3
<1>6. /\ Slice(e) \in Nat \ {0} /\ Base[e] = SubBuckets * Slice(e)
      /\ Base[e] \in Nat /\ Base[e + 1] = 2 * Base[e]
  BY <1>1, <1>5, OctaveFacts
<1> PICK w \in Nat \ {0} : w = Slice(e) BY <1>6
<1> PICK x \in Nat : x = value - Base[e] BY <1>3, <1>6
<1> PICK s \in Nat : s = x \div w OBVIOUS
<1>7. w * s <= x /\ x < w * s + w BY QuotientIs
<1>8. (x * SubBuckets) \div Base[e] = s
  <2> PICK a \in Nat, base \in Nat : a = x * SubBuckets /\ base = Base[e]
    BY <1>0, <1>6
  <2>1. base = SubBuckets * w BY <1>6
  <2>2. a \div base = x \div w BY <1>0, <2>1, Cancel
  <2> QED BY <2>2
<1>9. Index(value) = e * SubBuckets + s BY <1>4, <1>8
<1>10. s \in 0 .. SubBuckets - 1
  <2>1. x < SubBuckets * w BY <1>3, <1>6
  <2>2. ASSUME SubBuckets <= s PROVE FALSE
    <3>1. w * SubBuckets <= w * s BY <1>0, <2>2
    <3>2. w * SubBuckets = SubBuckets * w /\ w * SubBuckets \in Nat /\ w * s \in Nat
      BY <1>0
    <3> QED BY <1>7, <2>1, <3>1, <3>2
  <2> QED BY <1>0, <2>2
<1>11. Base[e] + w * s <= value /\ value < Base[e] + w * s + w
  <2>1. w * s \in Nat OBVIOUS
  <2> QED BY <1>6, <1>7, <2>1
<1>12. Places(value, e, s) BY <1>3, <1>9, <1>10, <1>11 DEF Places
<1> QED BY <1>12

(* A latency within the range is in its bucket.                            *)
LEMMA IndexIs ==
  ASSUME NEW value \in Nat
  PROVE  /\ Index(value) \in Buckets
         /\ value < LowestMs => Index(value) = 0
         /\ LowestMs <= value /\ value <= Range_ms
              => /\ Lower(Index(value)) <= value
                 /\ value <= Lower(Index(value)) + Width(Index(value))
<1>0. /\ SubBuckets \in Nat \ {0} /\ MaxExponent \in Nat \ {0} /\ LowestMs \in Nat
  BY LayoutAssumption
<1>1. /\ Base \in [0 .. MaxExponent -> Nat] /\ Base[0] = LowestMs
      /\ \A e \in 1 .. MaxExponent : Base[e] = 2 * Base[e - 1]
  BY BaseIs
<1>2. Range_ms \in Nat BY <1>0, <1>1 DEF Range_ms
<1>2a. LowestMs < Range_ms
  <2>1. Base[1] = 2 * Base[0] /\ Base[1] <= Base[MaxExponent]
    BY <1>0, <1>1, OctaveFacts
  <2> QED BY <1>1, <2>1, LayoutAssumption DEF Range_ms
<1>3. CASE value <= LowestMs
  <2> PICK z : z = 0 OBVIOUS
  <2>1. Index(value) = 0 BY <1>3 DEF Index
  <2>2. z \in 0 .. MaxExponent - 1 /\ z \in 0 .. SubBuckets - 1 BY <1>0
  <2>3. z * SubBuckets + z = 0 BY <1>0
  <2>4. /\ 0 \in Buckets /\ Width(0) = Slice(0)
        /\ Lower(0) = Base[0] + Slice(0) * 0
    BY <2>2, <2>3, BucketFacts
  <2>5. Slice(0) \in Nat \ {0} BY <1>0, OctaveFacts
  <2> QED BY <1>0, <1>1, <1>3, <2>1, <2>4, <2>5
<1>4. CASE ~ (value <= LowestMs) /\ value >= Range_ms
  <2> PICK e \in Nat : e = MaxExponent - 1 BY <1>0
  <2> PICK s \in Nat : s = SubBuckets - 1 BY <1>0
  <2>1. Index(value) = Top BY <1>4 DEF Index
  <2>2. e \in 0 .. MaxExponent - 1 /\ s \in 0 .. SubBuckets - 1 BY <1>0
  <2>3. e * SubBuckets + s = Top
    <3>1. MaxExponent * SubBuckets = e * SubBuckets + SubBuckets BY <1>0
    <3>2. e * SubBuckets \in Nat BY <1>0
    <3> QED BY <1>0, <3>1, <3>2 DEF Top
  <2>4. /\ Top \in Buckets /\ Width(Top) = Slice(e)
        /\ Lower(Top) = Base[e] + Slice(e) * s
    BY <2>2, <2>3, BucketFacts
  <2>5. /\ Slice(e) \in Nat \ {0} /\ Base[e] = SubBuckets * Slice(e)
        /\ Range_ms = 2 * Base[e] /\ Base[e] \in Nat
    BY <1>0, <1>1, OctaveFacts DEF Range_ms
  <2> PICK w \in Nat \ {0} : w = Slice(e) BY <2>5
  <2>6. w * s + w = SubBuckets * w /\ w * s \in Nat BY <1>0
  <2>7. Lower(Top) + Width(Top) = Range_ms BY <2>4, <2>5, <2>6
  <2> QED BY <1>0, <1>2, <1>4, <2>1, <2>4, <2>5, <2>6, <2>7
<1>5. CASE ~ (value <= LowestMs) /\ ~ (value >= Range_ms)
  <2>1. LowestMs < value /\ value < Range_ms BY <1>0, <1>2, <1>5
  <2>2. PICK e, s : Places(value, e, s) BY <2>1, Placed
  <2>3. e \in 0 .. MaxExponent - 1 /\ s \in 0 .. SubBuckets - 1
        /\ Index(value) = e * SubBuckets + s
    BY <2>2 DEF Places
  <2>4. LET b == e * SubBuckets + s
        IN /\ b \in Buckets /\ Width(b) = Slice(e)
           /\ Lower(b) = Base[e] + Slice(e) * s
    BY <2>3, BucketFacts
  <2>5. e \in 0 .. MaxExponent BY <1>0, <2>3
  <2>6. /\ Slice(e) \in Nat /\ Base[e] \in Nat BY <2>5, OctaveFacts
  <2>7. Slice(e) * s \in Nat BY <1>0, <2>3, <2>6
  <2>8. /\ Base[e] + Slice(e) * s <= value
        /\ value < Base[e] + Slice(e) * s + Slice(e)
    BY <2>2 DEF Places
  <2> QED BY <1>0, <2>1, <2>3, <2>4, <2>6, <2>7, <2>8
<1> QED BY <1>3, <1>4, <1>5

(* A larger latency is never in a bucket before.                           *)
LEMMA IndexRises ==
  ASSUME NEW v \in Nat, NEW u \in Nat, v <= u
  PROVE  Index(v) <= Index(u)
<1>0. /\ SubBuckets \in Nat \ {0} /\ MaxExponent \in Nat \ {0} /\ LowestMs \in Nat
  BY LayoutAssumption
<1>1. Base \in [0 .. MaxExponent -> Nat] BY BaseIs
<1>2. Range_ms \in Nat BY <1>0, <1>1 DEF Range_ms
<1>3. /\ Index(v) \in Buckets /\ Index(u) \in Buckets BY IndexIs
<1>4. Top \in Int /\ \A b \in Buckets : b \in Nat /\ b <= Top BY <1>0 DEF Buckets, Top
<1>5. CASE v <= LowestMs BY <1>3, <1>4, <1>5 DEF Index
<1>6. CASE ~ (u <= LowestMs) /\ u >= Range_ms
  <2>1. Index(u) = Top BY <1>6 DEF Index
  <2> QED BY <1>3, <1>4, <2>1
<1>7. CASE LowestMs < v /\ u < Range_ms
  <2>1. LowestMs < u /\ v < Range_ms BY <1>0, <1>2, <1>7
  <2>2. PICK e, s : Places(v, e, s) BY <1>7, <2>1, Placed
  <2>3. PICK d, t : Places(u, d, t) BY <1>7, <2>1, Placed
  <2>4. /\ e \in 0 .. MaxExponent - 1 /\ s \in 0 .. SubBuckets - 1
        /\ d \in 0 .. MaxExponent - 1 /\ t \in 0 .. SubBuckets - 1
        /\ Index(v) = e * SubBuckets + s /\ Index(u) = d * SubBuckets + t
    BY <2>2, <2>3 DEF Places
  <2>5. CASE d < e
    <3>1. e \in 0 .. MaxExponent /\ d + 1 \in 0 .. e BY <1>0, <2>4, <2>5
    <3>2. Base[d + 1] <= Base[e] BY <3>1, OctaveFacts
    <3>3. Base[d + 1] \in Nat /\ Base[e] \in Nat BY <1>0, <1>1, <2>4, <3>1
    <3>4. Base[e] <= v /\ u < Base[d + 1] BY <2>2, <2>3 DEF Places
    <3> QED BY <3>2, <3>3, <3>4
  <2>6. CASE d = e
    <3>0. e \in 0 .. MaxExponent BY <1>0, <2>4
    <3>1. Slice(e) \in Nat \ {0} /\ Base[e] \in Nat BY <3>0, OctaveFacts
    <3> PICK w \in Nat \ {0} : w = Slice(e) BY <3>1
    <3>2. Base[e] + w * s <= v /\ u < Base[e] + w * t + w
      BY <2>2, <2>3, <2>6 DEF Places
    <3>3. w * s \in Nat /\ w * t \in Nat BY <1>0, <2>4
    <3>4. ASSUME t < s PROVE FALSE
      <4>1. w * (t + 1) <= w * s BY <1>0, <2>4, <3>4
      <4>2. w * (t + 1) = w * t + w BY <1>0, <2>4
      <4> QED BY <3>1, <3>2, <3>3, <4>1, <4>2
    <3>5. e * SubBuckets \in Nat BY <1>0, <2>4
    <3> QED BY <1>0, <2>4, <2>6, <3>4, <3>5
  <2>7. CASE e < d
    <3>1. (e + 1) * SubBuckets <= d * SubBuckets BY <1>0, <2>4, <2>7
    <3>2. (e + 1) * SubBuckets = e * SubBuckets + SubBuckets BY <1>0, <2>4
    <3>3. e * SubBuckets \in Nat /\ d * SubBuckets \in Nat BY <1>0, <2>4
    <3> QED BY <1>0, <2>4, <3>1, <3>2, <3>3
  <2> QED BY <2>4, <2>5, <2>6, <2>7
<1> QED BY <1>0, <1>2, <1>5, <1>6, <1>7

-------------------------------------------------------------------------------
(* What is in the buckets. *)

(* A quantity of a histogram that adds up is the sum of what its values    *)
(* add, and of that of the histograms it was merged from.                  *)
LEMMA MeasureOfValues ==
  ASSUME NEW S, IsFiniteSet(S), NEW values \in [S -> Nat],
         NEW m \in [Histograms -> Nat], NEW d \in [S -> Nat], m[Empty] = 0,
         \A h \in Histograms, i \in S : m[Record(h, values[i])] = m[h] + d[i]
  PROVE  m[FromValues(values)] = SumFunctionOnSet(d, S)
<1> DEFINE step == [a \in S \X Histograms |-> Record(a[2], values[a[1]])]
<1>1. PICK it : /\ IsFold(S, Histograms, Empty, step, it)
                /\ FromValues(values) = it[S]
  BY RecordIsFold
<1>2. \A i \in S, h \in Histograms : step[<<i, h>>] = Record(h, values[i]) OBVIOUS
<1> HIDE DEF step
<1> DEFINE T == {s \in SUBSET S : m[it[s]] = SumFunctionOnSet(d, s)}
<1>3. ASSUME NEW s \in SUBSET S, \A i \in s : s \ {i} \in T PROVE s \in T
  <2>1. CASE s = {}
    <3>1. it[s] = Empty BY <1>1, <2>1 DEF IsFold
    <3> QED BY <2>1, <3>1, SumOfNone
  <2>2. CASE s # {}
    <3>1. One(s) \in s /\ s \ {One(s)} \in SUBSET S BY <2>2, OneIsIn
    <3> PICK c \in s : c = One(s) BY <3>1
    <3> PICK r : r = it[s \ {c}] OBVIOUS
    <3>2. r \in Histograms BY <1>1, <3>1 DEF IsFold
    <3>3. it[s] = Record(r, values[c]) BY <1>1, <1>2, <2>2, <3>2 DEF IsFold
    <3>4. m[r] = SumFunctionOnSet(d, s \ {c}) BY <1>3
    <3>5. m[it[s]] = m[r] + d[c] BY <3>2, <3>3
    <3>6. IsFiniteSet(s) /\ \A i \in s : d[i] \in Int BY FS_Subset
    <3>7. SumFunctionOnSet(d, s) = d[c] + SumFunctionOnSet(d, s \ {c})
      BY <3>6, SumOfSome
    <3>8. m[r] \in Nat /\ d[c] \in Nat BY <3>2
    <3> QED BY <3>4, <3>5, <3>7, <3>8
  <2> QED BY <2>1, <2>2
<1>4. S \in T
  <2> HIDE DEF T
  <2>1. SUBSET S \subseteq T BY <1>3, SetUpTo
  <2> QED BY <2>1
<1> QED BY <1>1, <1>4

LEMMA MeasureOfParts ==
  ASSUME NEW C, IsFiniteSet(C), NEW parts \in [C -> Histograms],
         NEW m \in [Histograms -> Nat], m[Empty] = 0,
         \A h \in Histograms, g \in Histograms :
           m[MergeHistograms(h, g)] = m[h] + m[g]
  PROVE  m[MergeAll(parts)] = SumFunctionOnSet([c \in C |-> m[parts[c]]], C)
<1> DEFINE step == [a \in C \X Histograms |-> MergeHistograms(a[2], parts[a[1]])]
<1>1. PICK it : /\ IsFold(C, Histograms, Empty, step, it)
                /\ MergeAll(parts) = it[C]
  BY MergeIsFold
<1>2. \A i \in C, h \in Histograms : step[<<i, h>>] = MergeHistograms(h, parts[i])
  OBVIOUS
<1> HIDE DEF step
<1> PICK d : d = [c \in C |-> m[parts[c]]] OBVIOUS
<1>d. \A c \in C : d[c] = m[parts[c]] /\ d[c] \in Nat OBVIOUS
<1> DEFINE T == {s \in SUBSET C : m[it[s]] = SumFunctionOnSet(d, s)}
<1>3. ASSUME NEW s \in SUBSET C, \A i \in s : s \ {i} \in T PROVE s \in T
  <2>1. CASE s = {}
    <3>1. it[s] = Empty BY <1>1, <2>1 DEF IsFold
    <3> QED BY <2>1, <3>1, SumOfNone
  <2>2. CASE s # {}
    <3>1. One(s) \in s /\ s \ {One(s)} \in SUBSET C BY <2>2, OneIsIn
    <3> PICK c \in s : c = One(s) BY <3>1
    <3> PICK r : r = it[s \ {c}] OBVIOUS
    <3>2. r \in Histograms BY <1>1, <3>1 DEF IsFold
    <3>3. it[s] = MergeHistograms(r, parts[c]) BY <1>1, <1>2, <2>2, <3>2 DEF IsFold
    <3>4. m[r] = SumFunctionOnSet(d, s \ {c}) BY <1>3
    <3>5. m[it[s]] = m[r] + d[c] BY <1>d, <3>2, <3>3
    <3>6. IsFiniteSet(s) /\ \A i \in s : d[i] \in Int BY <1>d, FS_Subset
    <3>7. SumFunctionOnSet(d, s) = d[c] + SumFunctionOnSet(d, s \ {c})
      BY <3>6, SumOfSome
    <3>8. m[r] \in Nat /\ d[c] \in Nat BY <1>d, <3>2
    <3> QED BY <3>4, <3>5, <3>7, <3>8
  <2> QED BY <2>1, <2>2
<1>4. C \in T
  <2> HIDE DEF T
  <2>1. SUBSET C \subseteq T BY <1>3, SetUpTo
  <2> QED BY <2>1
<1> QED BY <1>1, <1>4

(* Of every bucket how many are in it, and how many are out of range.      *)
InBucket == [b \in Buckets |-> [h \in Histograms |-> h.counts[b]]]
OutOfRange == [h \in Histograms |-> h.overflow_count]

LEMMA Measures ==
  /\ OutOfRange \in [Histograms -> Nat] /\ OutOfRange[Empty] = 0
  /\ \A h \in Histograms, g \in Histograms :
       OutOfRange[MergeHistograms(h, g)] = OutOfRange[h] + OutOfRange[g]
  /\ \A h \in Histograms, v \in Nat :
       OutOfRange[Record(h, v)] = OutOfRange[h] + IF v > Range_ms THEN 1 ELSE 0
  /\ \A b \in Buckets :
       /\ InBucket[b] \in [Histograms -> Nat] /\ InBucket[b][Empty] = 0
       /\ \A h \in Histograms, g \in Histograms :
            InBucket[b][MergeHistograms(h, g)] = InBucket[b][h] + InBucket[b][g]
       /\ \A h \in Histograms, v \in Nat :
            InBucket[b][Record(h, v)] = InBucket[b][h] + IF Index(v) = b THEN 1 ELSE 0
<1>1. /\ OutOfRange \in [Histograms -> Nat] /\ OutOfRange[Empty] = 0
  BY HistogramType DEF OutOfRange, Histograms, Empty
<1>2. ASSUME NEW h \in Histograms, NEW g \in Histograms
      PROVE  OutOfRange[MergeHistograms(h, g)] = OutOfRange[h] + OutOfRange[g]
  <2>1. MergeHistograms(h, g) \in Histograms BY HistogramType
  <2>2. MergeHistograms(h, g).overflow_count = h.overflow_count + g.overflow_count
    BY DEF MergeHistograms
  <2> QED BY <2>1, <2>2 DEF OutOfRange
<1>3. ASSUME NEW h \in Histograms, NEW v \in Nat
      PROVE  OutOfRange[Record(h, v)] = OutOfRange[h] + IF v > Range_ms THEN 1 ELSE 0
  <2>1. Record(h, v) \in Histograms BY HistogramType
  <2>2. Record(h, v).overflow_count = h.overflow_count + IF v > Range_ms THEN 1 ELSE 0
    BY DEF Record
  <2> QED BY <2>1, <2>2 DEF OutOfRange
<1>4. ASSUME NEW b \in Buckets
      PROVE  InBucket[b] \in [Histograms -> Nat] /\ InBucket[b][Empty] = 0
  <2>1. InBucket[b] = [h \in Histograms |-> h.counts[b]] BY DEF InBucket
  <2>2. \A h \in Histograms : h.counts \in [Buckets -> Nat] BY DEF Histograms
  <2>3. Empty \in Histograms /\ Empty.counts[b] = 0 BY HistogramType DEF Empty
  <2> QED BY <2>1, <2>2, <2>3
<1>5. ASSUME NEW b \in Buckets, NEW h \in Histograms, NEW g \in Histograms
      PROVE  InBucket[b][MergeHistograms(h, g)] = InBucket[b][h] + InBucket[b][g]
  <2>1. MergeHistograms(h, g) \in Histograms BY HistogramType
  <2>2. MergeHistograms(h, g).counts[b] = h.counts[b] + g.counts[b]
    BY DEF MergeHistograms
  <2> QED BY <2>1, <2>2 DEF InBucket
<1>6. ASSUME NEW b \in Buckets, NEW h \in Histograms, NEW v \in Nat
      PROVE  InBucket[b][Record(h, v)] = InBucket[b][h] + IF Index(v) = b THEN 1 ELSE 0
  <2>1. Record(h, v) \in Histograms BY HistogramType
  <2> PICK counts \in [Buckets -> Nat] : counts = h.counts BY DEF Histograms
  <2>2. Record(h, v).counts = [counts EXCEPT ![Index(v)] = @ + 1] BY DEF Record
  <2>3. Record(h, v).counts[b] = counts[b] + IF Index(v) = b THEN 1 ELSE 0
    <3>1. counts[b] \in Nat OBVIOUS
    <3> QED BY <2>2, <3>1
  <2> QED BY <2>1, <2>3 DEF InBucket
<1> QED BY <1>1, <1>2, <1>3, <1>4, <1>5, <1>6

-------------------------------------------------------------------------------
(* Tables of results, and what can be counted in them.                     *)
IsTable(tab) == IsFiniteSet(DOMAIN tab) /\ tab \in [DOMAIN tab -> Kinds]

Completed == {k \in Kinds : k.completed}
Answers == {k \in Kinds : k.responded}
Unexpected == {k \in Answers : ~ k.expected}
OverHttp2 == {k \in Answers : k.http2}
Searches == {k \in Answers : k.dns_ms # None}

LatencyOf == [k \in Kinds |-> IF k \in Answers THEN k.total_ms ELSE 0]
SearchOf == [k \in Kinds |-> IF k \in Searches THEN k.dns_ms ELSE 0]

At(tab, P) == {i \in DOMAIN tab : tab[i] \in P}

Count(tab, P) == Cardinality(At(tab, P))

Worth(tab, w) == SumFunctionOnSet([i \in DOMAIN tab |-> w[tab[i]]], DOMAIN tab)

LatencySet(tab) == {tab[i].total_ms : i \in At(tab, Answers)}

ExpirySet(tab) == {tab[i].expiry : i \in DOMAIN tab} \ {None}

IsRate(x, n, d) == x \in Proper /\ Equal(x, Fraction(n, d))

Among(b) == {k \in Answers : Index(k.total_ms) = b}
UpToBucket(b) == {k \in Answers : Index(k.total_ms) <= b}
Beyond == {k \in Answers : k.total_ms > Range_ms}

(* The latencies of a table are in the buckets.                            *)
Sorted(h, tab) ==
  /\ \A b \in Buckets : InBucket[b][h] = Count(tab, Among(b))
  /\ OutOfRange[h] = Count(tab, Beyond)

(* Describes, in terms that add up.                                        *)
Described(s, tab) ==
  /\ s.total = Count(tab, Kinds) /\ s.successful = Count(tab, Completed)
  /\ s.responded = Count(tab, Answers) /\ s.lookups = Count(tab, Searches)
  /\ IsRate(s.transport, 100 * Count(tab, Kinds \ Answers), Count(tab, Kinds))
  /\ IsRate(s.unexpected, 100 * Count(tab, Unexpected), Count(tab, Kinds))
  /\ IsRate(s.http2, 100 * Count(tab, OverHttp2), Count(tab, Answers))
  /\ IsRate(s.dns, Worth(tab, SearchOf), Count(tab, Searches))
  /\ IsLeast(s.expiry, ExpirySet(tab))
  /\ s.histogram \in Histograms
  /\ s.histogram.count = Count(tab, Answers)
  /\ s.histogram.total = Worth(tab, LatencyOf)
  /\ IsLeast(s.histogram.min_ms, LatencySet(tab))
  /\ IsGreatest(s.histogram.max_ms, LatencySet(tab))
  /\ Sorted(s.histogram, tab)

LEMMA TableFacts ==
  ASSUME NEW tab, IsTable(tab)
  PROVE  /\ \A P : /\ At(tab, P) \subseteq DOMAIN tab /\ IsFiniteSet(At(tab, P))
                   /\ Count(tab, P) \in Nat
                   /\ Count(tab, P) = 0 <=> At(tab, P) = {}
         /\ At(tab, Kinds) = DOMAIN tab
         /\ \A i \in DOMAIN tab : tab[i] \in Kinds /\ tab[i] \in Outcomes
<1>1. ASSUME NEW P
      PROVE  /\ At(tab, P) \subseteq DOMAIN tab /\ IsFiniteSet(At(tab, P))
             /\ Count(tab, P) \in Nat
             /\ Count(tab, P) = 0 <=> At(tab, P) = {}
  <2>1. At(tab, P) \subseteq DOMAIN tab BY DEF At
  <2>2. IsFiniteSet(At(tab, P)) BY <2>1, FS_Subset DEF IsTable
  <2> QED BY <2>1, <2>2, FS_CardinalityType, FS_EmptySet DEF Count
<1>2. \A i \in DOMAIN tab : tab[i] \in Kinds BY DEF IsTable
<1>3. \A i \in DOMAIN tab : tab[i] \in Outcomes BY <1>2, KindsAssumption
<1>4. At(tab, Kinds) = DOMAIN tab BY <1>2 DEF At
<1> QED BY <1>1, <1>2, <1>3, <1>4

LEMMA ValuesOf ==
  /\ LatencyOf \in [Kinds -> Nat] /\ SearchOf \in [Kinds -> Nat]
  /\ \A k \in Answers : LatencyOf[k] = k.total_ms /\ k.total_ms \in Nat
  /\ \A k \in Kinds \ Answers : LatencyOf[k] = 0
  /\ \A k \in Searches : SearchOf[k] = k.dns_ms /\ k.dns_ms \in Nat
  /\ \A k \in Kinds \ Searches : SearchOf[k] = 0
<1>1. \A k \in Kinds : k.total_ms \in Nat /\ k.dns_ms \in Nat \cup {None}
  BY KindsAssumption DEF Outcomes
<1>2. Answers \subseteq Kinds /\ Searches \subseteq Kinds
      /\ \A k \in Searches : k.dns_ms # None
  BY DEF Answers, Searches
<1> QED BY <1>1, <1>2 DEF LatencyOf, SearchOf

(* Only the rows that are worth something count.                           *)
LEMMA WorthIs ==
  ASSUME NEW tab, IsTable(tab), NEW w \in [Kinds -> Nat], NEW P \in SUBSET Kinds,
         \A k \in Kinds \ P : w[k] = 0,
         NEW f, \A i \in At(tab, P) : f[i] = w[tab[i]]
  PROVE  /\ Worth(tab, w) \in Nat
         /\ SumFunctionOnSet(f, At(tab, P)) = Worth(tab, w)
<1> DEFINE g == [i \in DOMAIN tab |-> w[tab[i]]]
<1>1. \A i \in DOMAIN tab : g[i] \in Nat BY TableFacts
<1>2. \A i \in (DOMAIN tab) \ At(tab, P) : g[i] = 0
  <2> SUFFICES ASSUME NEW i \in DOMAIN tab, i \notin At(tab, P) PROVE g[i] = 0
    OBVIOUS
  <2>1. tab[i] \in Kinds \ P BY TableFacts DEF At
  <2> QED BY <2>1
<1>3. /\ IsFiniteSet(DOMAIN tab) /\ At(tab, P) \in SUBSET DOMAIN tab
      /\ IsFiniteSet(At(tab, P))
  BY TableFacts DEF IsTable
<1>4. \A i \in At(tab, P) : g[i] \in Int /\ g[i] = f[i] BY <1>1, <1>3
<1>5. Worth(tab, w) = SumFunctionOnSet(g, DOMAIN tab) BY DEF Worth
<1> HIDE DEF g
<1>6. SumFunctionOnSet(g, DOMAIN tab) = SumFunctionOnSet(g, At(tab, P))
  BY <1>1, <1>2, <1>3, SumOfSupport
<1>7. SumFunctionOnSet(g, At(tab, P)) = SumFunctionOnSet(f, At(tab, P))
  BY <1>3, <1>4, SumOfSame
<1>8. SumFunctionOnSet(g, DOMAIN tab) \in Nat BY <1>1, <1>3, SumIsNatural
<1> QED BY <1>5, <1>6, <1>7, <1>8

LEMMA RateOf ==
  ASSUME NEW n \in Int, NEW d \in Nat
  PROVE  IsRate(Fraction(n, d), n, d)
<1>1. Fraction(n, d) \in Proper BY PlusType DEF Fraction, Proper
<1>2. \A x \in Proper : Equal(x, x) BY DEF Equal, Proper
<1> QED BY <1>1, <1>2 DEF IsRate

LEMMA StatisticsFields ==
  ASSUME NEW rows
  PROVE  LET s == TargetStatistics(rows)
             total == Cardinality(DOMAIN rows)
             responded == Cardinality({i \in DOMAIN rows : rows[i].responded})
             lookups == Lookups(rows)
         IN /\ s.total = total
            /\ s.successful = Cardinality({i \in DOMAIN rows : rows[i].completed})
            /\ s.responded = responded
            /\ s.lookups = Cardinality(DOMAIN lookups)
            /\ s.transport = Fraction(100 * (total - responded), total)
            /\ s.unexpected
                 = Fraction(100 * (responded
                              - Cardinality({i \in DOMAIN rows : rows[i].expected})),
                            total)
            /\ s.http2 = Fraction(100 * Cardinality({i \in DOMAIN rows :
                                    rows[i].responded /\ rows[i].http2}), responded)
            /\ s.dns = Fraction(SumFunction(lookups), Cardinality(DOMAIN lookups))
            /\ s.expiry = Least([i \in DOMAIN rows |-> rows[i].expiry])
            /\ s.histogram = FromValues(Latencies(rows))
BY DEF TargetStatistics, Number, Responded, Column

LEMMA LeastIs ==
  ASSUME NEW values, \A i \in DOMAIN values : values[i] \in Nat \cup {None}
  PROVE  IsLeast(Least(values), {values[i] : i \in DOMAIN values} \ {None})
<1> DEFINE known == {values[i] : i \in DOMAIN values} \ {None}
<1>1. known \subseteq Nat OBVIOUS
<1>2. Least(values) = IF known = {} THEN None ELSE Min(known) BY DEF Least
<1> HIDE DEF known
<1>3. ASSUME known # {} PROVE Min(known) \in known /\ \A y \in known : Min(known) <= y
  <2>1. PICK x \in known : \A y \in known : x <= y BY <1>1, <1>3, LeastNatural
  <2> QED BY <2>1 DEF Min
<1>4. IsLeast(Least(values), known) BY <1>2, <1>3 DEF IsLeast
<1> QED BY <1>4 DEF known

LEMMA SortedAlone ==
  ASSUME NEW tab, IsTable(tab),
         NEW latencies, latencies = [i \in At(tab, Answers) |-> tab[i].total_ms]
  PROVE  Sorted(FromValues(latencies), tab)
<1> PICK A : A = At(tab, Answers) OBVIOUS
<1>1. IsFiniteSet(A) /\ \A i \in A : tab[i] \in Answers BY TableFacts DEF At
<1>2. /\ latencies \in [A -> Nat] /\ \A i \in A : latencies[i] = tab[i].total_ms
  BY <1>1, ValuesOf
<1>3. ASSUME NEW P \in SUBSET Answers, NEW m \in [Histograms -> Nat], m[Empty] = 0,
             \A h \in Histograms, i \in A :
               m[Record(h, latencies[i])] = m[h] + IF tab[i] \in P THEN 1 ELSE 0
      PROVE  m[FromValues(latencies)] = Count(tab, P)
  <2> PICK d : d = [i \in A |-> IF tab[i] \in P THEN 1 ELSE 0] OBVIOUS
  <2>1. d \in [A -> Nat] /\ \A i \in A : d[i] = IF tab[i] \in P THEN 1 ELSE 0 OBVIOUS
  <2>2. m[FromValues(latencies)] = SumFunctionOnSet(d, A)
    BY <1>1, <1>2, <1>3, <2>1, MeasureOfValues
  <2> PICK B : B = At(tab, P) OBVIOUS
  <2>3. B \in SUBSET A BY DEF At
  <2>4. Marks(d, B, A)
    <3>1. \A i \in A : i \in B <=> tab[i] \in P BY DEF At
    <3> QED BY <2>1, <3>1 DEF Marks
  <2>5. SumFunctionOnSet(d, A) = Cardinality(B) BY <1>1, <2>3, <2>4, SumOfMembers
  <2> QED BY <2>2, <2>5 DEF Count
<1>4. ASSUME NEW b \in Buckets
      PROVE  InBucket[b][FromValues(latencies)] = Count(tab, Among(b))
  <2> PICK m : m = InBucket[b] OBVIOUS
  <2>1. m \in [Histograms -> Nat] /\ m[Empty] = 0 BY Measures
  <2>2. \A h \in Histograms, i \in A :
          m[Record(h, latencies[i])] = m[h] + IF tab[i] \in Among(b) THEN 1 ELSE 0
    BY <1>1, <1>2, Measures DEF Among
  <2>3. Among(b) \in SUBSET Answers BY DEF Among
  <2> QED BY <1>3, <2>1, <2>2, <2>3
<1>5. OutOfRange[FromValues(latencies)] = Count(tab, Beyond)
  <2>1. OutOfRange \in [Histograms -> Nat] /\ OutOfRange[Empty] = 0 BY Measures
  <2>2. \A h \in Histograms, i \in A :
          OutOfRange[Record(h, latencies[i])]
            = OutOfRange[h] + IF tab[i] \in Beyond THEN 1 ELSE 0
    BY <1>1, <1>2, Measures DEF Beyond
  <2>3. Beyond \in SUBSET Answers BY DEF Beyond
  <2> QED BY <1>3, <2>1, <2>2, <2>3
<1> QED BY <1>4, <1>5 DEF Sorted

LEMMA DescribedAlone ==
  ASSUME NEW tab, IsTable(tab)
  PROVE  Described(TargetStatistics(tab), tab)
<1> DEFINE s == TargetStatistics(tab)
           D == DOMAIN tab
           lookups == Lookups(tab)
           latencies == Latencies(tab)
<1>1. /\ s.total = Cardinality(D)
      /\ s.successful = Cardinality({i \in D : tab[i].completed})
      /\ s.responded = Cardinality({i \in D : tab[i].responded})
      /\ s.lookups = Cardinality(DOMAIN lookups)
      /\ s.transport
           = Fraction(100 * (Cardinality(D)
                        - Cardinality({i \in D : tab[i].responded})), Cardinality(D))
      /\ s.unexpected
           = Fraction(100 * (Cardinality({i \in D : tab[i].responded})
                        - Cardinality({i \in D : tab[i].expected})), Cardinality(D))
      /\ s.http2 = Fraction(100 * Cardinality({i \in D : tab[i].responded /\ tab[i].http2}),
                            Cardinality({i \in D : tab[i].responded}))
      /\ s.dns = Fraction(SumFunction(lookups), Cardinality(DOMAIN lookups))
      /\ s.expiry = Least([i \in D |-> tab[i].expiry])
      /\ s.histogram = FromValues(latencies)
  BY StatisticsFields
<1>2. \A i \in D : tab[i] \in Kinds /\ tab[i] \in Outcomes BY TableFacts
<1>3. /\ D = At(tab, Kinds)
      /\ {i \in D : tab[i].completed} = At(tab, Completed)
      /\ {i \in D : tab[i].responded} = At(tab, Answers)
      /\ {i \in D : tab[i].responded /\ tab[i].http2} = At(tab, OverHttp2)
  BY <1>2 DEF At, Completed, Answers, OverHttp2
<1>4. DOMAIN lookups = At(tab, Searches)
      /\ \A i \in At(tab, Searches) : lookups[i] = tab[i].dns_ms
  BY <1>2 DEF Lookups, Column, RestrictValues, Restrict, LookedUp, At, Searches, Answers
<1>5. /\ DOMAIN latencies = At(tab, Answers)
      /\ latencies = [i \in At(tab, Answers) |-> tab[i].total_ms]
  BY <1>2 DEF Latencies, Column, RestrictValues, Restrict, Responded, At, Answers
<1> HIDE DEF s, lookups, latencies
<1>6. Count(tab, Kinds \ Answers)
        = Cardinality(D) - Cardinality({i \in D : tab[i].responded})
  <2>1. At(tab, Kinds \ Answers) = D \ At(tab, Answers) /\ At(tab, Answers) \subseteq D
    BY <1>2 DEF At
  <2>2. IsFiniteSet(D) BY DEF IsTable
  <2>3. Cardinality(D \ At(tab, Answers)) = Cardinality(D) - Cardinality(D \cap At(tab, Answers))
    BY <2>2, FS_Difference
  <2>4. D \cap At(tab, Answers) = At(tab, Answers) BY <2>1
  <2> QED BY <1>3, <2>1, <2>3, <2>4 DEF Count
<1>7. Count(tab, Unexpected)
        = Cardinality({i \in D : tab[i].responded})
          - Cardinality({i \in D : tab[i].expected})
  <2> DEFINE A == At(tab, Answers)
             B == {i \in D : tab[i].expected}
  <2>1. \A i \in D : tab[i].expected => tab[i].responded
    BY <1>2, KindsAssumption
  <2>2. At(tab, Unexpected) = A \ B BY <1>2 DEF At, Unexpected, Answers
  <2>3. A \cap B = B BY <1>2, <2>1 DEF At, Answers
  <2>4. IsFiniteSet(A) BY TableFacts
  <2>5. Cardinality(A \ B) = Cardinality(A) - Cardinality(A \cap B)
    BY <2>4, FS_Difference
  <2> QED BY <1>3, <2>2, <2>3, <2>5 DEF Count
<1>8. IsRate(s.transport, 100 * Count(tab, Kinds \ Answers), Count(tab, Kinds))
  <2>1. \A n \in Nat : 100 * n \in Int OBVIOUS
  <2>2. /\ 100 * Count(tab, Kinds \ Answers) \in Int /\ Count(tab, Kinds) \in Nat
        /\ Cardinality(D) = Count(tab, Kinds)
    BY <1>3, <2>1, TableFacts DEF Count
  <2>3. s.transport = Fraction(100 * Count(tab, Kinds \ Answers), Count(tab, Kinds))
    BY <1>1, <1>6, <2>2
  <2> QED BY <2>2, <2>3, RateOf
<1>9. IsRate(s.unexpected, 100 * Count(tab, Unexpected), Count(tab, Kinds))
  <2>1. \A n \in Nat : 100 * n \in Int OBVIOUS
  <2>2. /\ 100 * Count(tab, Unexpected) \in Int /\ Count(tab, Kinds) \in Nat
        /\ Cardinality(D) = Count(tab, Kinds)
    BY <1>3, <2>1, TableFacts DEF Count
  <2>3. s.unexpected = Fraction(100 * Count(tab, Unexpected), Count(tab, Kinds))
    BY <1>1, <1>7, <2>2
  <2> QED BY <2>2, <2>3, RateOf
<1>10. IsRate(s.http2, 100 * Count(tab, OverHttp2), Count(tab, Answers))
  <2>1. \A n \in Nat : 100 * n \in Int OBVIOUS
  <2>2. 100 * Count(tab, OverHttp2) \in Int /\ Count(tab, Answers) \in Nat
    BY <2>1, TableFacts
  <2>3. s.http2 = Fraction(100 * Count(tab, OverHttp2), Count(tab, Answers))
    BY <1>1, <1>3 DEF Count
  <2> QED BY <2>2, <2>3, RateOf
<1>11. IsRate(s.dns, Worth(tab, SearchOf), Count(tab, Searches))
  <2>1. \A k \in Kinds \ Searches : SearchOf[k] = 0 BY ValuesOf
  <2>2. \A i \in At(tab, Searches) : lookups[i] = SearchOf[tab[i]]
    BY <1>4, ValuesOf DEF At
  <2>3. Searches \in SUBSET Kinds BY DEF Searches, Answers
  <2>4. SearchOf \in [Kinds -> Nat] BY ValuesOf
  <2>5. /\ Worth(tab, SearchOf) \in Nat
        /\ SumFunctionOnSet(lookups, At(tab, Searches)) = Worth(tab, SearchOf)
    BY <2>1, <2>2, <2>3, <2>4, WorthIs
  <2>6. SumFunction(lookups) = Worth(tab, SearchOf)
    BY <1>4, <2>5 DEF SumFunction
  <2>7. Count(tab, Searches) \in Nat BY TableFacts
  <2>8. s.dns = Fraction(Worth(tab, SearchOf), Count(tab, Searches))
    BY <1>1, <1>4, <2>6 DEF Count
  <2> QED BY <2>5, <2>7, <2>8, RateOf
<1>12. IsLeast(s.expiry, ExpirySet(tab))
  <2> DEFINE column == [i \in D |-> tab[i].expiry]
  <2>1. \A i \in DOMAIN column : column[i] \in Nat \cup {None}
    BY <1>2 DEF Outcomes
  <2>2. {column[i] : i \in DOMAIN column} \ {None} = ExpirySet(tab)
    BY DEF ExpirySet
  <2>3. s.expiry = Least(column) BY <1>1
  <2> HIDE DEF column
  <2> QED BY <2>1, <2>2, <2>3, LeastIs
<1>13. /\ s.histogram \in Histograms
       /\ s.histogram.count = Count(tab, Answers)
       /\ s.histogram.total = Worth(tab, LatencyOf)
       /\ IsLeast(s.histogram.min_ms, LatencySet(tab))
       /\ IsGreatest(s.histogram.max_ms, LatencySet(tab))
  <2> DEFINE A == At(tab, Answers)
  <2>1. \A i \in A : tab[i] \in Answers BY DEF At
  <2>2. latencies \in [A -> Nat] BY <1>5, <2>1, ValuesOf
  <2>3. IsFiniteSet(A) BY TableFacts
  <2>4. {latencies[i] : i \in A} = LatencySet(tab) BY <1>5 DEF LatencySet
  <2>5. \A k \in Kinds \ Answers : LatencyOf[k] = 0 BY ValuesOf
  <2>6. \A i \in A : latencies[i] = LatencyOf[tab[i]] BY <1>5, <2>1, ValuesOf
  <2>7. Answers \in SUBSET Kinds /\ LatencyOf \in [Kinds -> Nat]
    BY ValuesOf DEF Answers
  <2> HIDE DEF A
  <2>8. /\ FromValues(latencies) \in Histograms
        /\ FromValues(latencies).count = Cardinality(A)
        /\ FromValues(latencies).total = SumFunctionOnSet(latencies, A)
        /\ IsLeast(FromValues(latencies).min_ms, {latencies[i] : i \in A})
        /\ IsGreatest(FromValues(latencies).max_ms, {latencies[i] : i \in A})
    BY <2>2, <2>3, HistogramOfValues
  <2>9. SumFunctionOnSet(latencies, A) = Worth(tab, LatencyOf)
    BY <2>5, <2>6, <2>7, WorthIs DEF A
  <2> QED BY <1>1, <2>4, <2>8, <2>9 DEF Count, A
<1>14. /\ s.total = Count(tab, Kinds) /\ s.successful = Count(tab, Completed)
       /\ s.responded = Count(tab, Answers) /\ s.lookups = Count(tab, Searches)
  BY <1>1, <1>3, <1>4 DEF Count
<1>15. Sorted(s.histogram, tab) BY <1>1, <1>5, SortedAlone
<1> QED BY <1>8, <1>9, <1>10, <1>11, <1>12, <1>13, <1>14, <1>15 DEF Described, s

(* A table cut into tables.                                                *)
Parted(C, part, tab) ==
  /\ IsFiniteSet(C) /\ IsTable(tab)
  /\ \A c \in C : /\ IsTable(part[c])
                  /\ \A i \in DOMAIN part[c] : i \in DOMAIN tab /\ part[c][i] = tab[i]
  /\ \A i \in DOMAIN tab : \E c \in C : i \in DOMAIN part[c]
  /\ \A c, d \in C : c # d => DOMAIN part[c] \cap DOMAIN part[d] = {}

(* What is counted in the parts adds up.                                   *)
LEMMA CountOfParts ==
  ASSUME NEW C, NEW part, NEW tab, Parted(C, part, tab), NEW P,
         NEW counts, \A c \in C : counts[c] = Count(part[c], P)
  PROVE  SumFunctionOnSet(counts, C) = Count(tab, P)
<1> DEFINE S == At(tab, P)
           at == [c \in C |-> At(part[c], P)]
           ones == [i \in S |-> 1]
<1>1. IsFiniteSet(S) /\ IsFiniteSet(C) /\ \A c \in C : IsFiniteSet(at[c])
  BY TableFacts DEF Parted
<1>2. /\ \A c \in C : at[c] \subseteq S
      /\ \A i \in S : \E c \in C : i \in at[c]
      /\ \A c, d \in C : c # d => at[c] \cap at[d] = {}
  BY DEF Parted, At
<1>3. Divides(C, at, S) BY <1>2 DEF Divides
<1>4. SumFunctionOnSet(ones, S) = Count(tab, P) BY <1>1, SumOfOnes DEF Count
<1>5. \A c \in C : counts[c] = SumFunctionOnSet(ones, at[c])
  <2> SUFFICES ASSUME NEW c \in C PROVE counts[c] = SumFunctionOnSet(ones, at[c])
    OBVIOUS
  <2>1. \A i \in at[c] : ones[i] = 1 BY <1>2
  <2>2. counts[c] = Cardinality(at[c]) BY DEF Count
  <2>3. IsFiniteSet(at[c]) BY <1>1
  <2> HIDE DEF ones, at
  <2> QED BY <2>1, <2>2, <2>3, SumOfOnes
<1>6. \A i \in S : ones[i] \in Int OBVIOUS
<1> HIDE DEF ones, at, S
<1>7. SumFunctionOnSet(ones, S) = SumFunctionOnSet(counts, C)
  BY <1>1, <1>3, <1>5, <1>6, SumOfParts
<1> QED BY <1>4, <1>7

LEMMA WorthOfParts ==
  ASSUME NEW C, NEW part, NEW tab, Parted(C, part, tab), NEW w \in [Kinds -> Nat],
         NEW sums, \A c \in C : sums[c] = Worth(part[c], w)
  PROVE  SumFunctionOnSet(sums, C) = Worth(tab, w)
<1> DEFINE S == DOMAIN tab
           f == [i \in S |-> w[tab[i]]]
           rows == [c \in C |-> DOMAIN part[c]]
<1>1. IsFiniteSet(S) /\ IsFiniteSet(C) BY DEF Parted, IsTable
<1>2. Divides(C, rows, S) BY DEF Parted, Divides
<1>3. \A i \in S : f[i] \in Int BY TableFacts DEF Parted
<1>4. \A c \in C : sums[c] = SumFunctionOnSet(f, rows[c])
  <2> SUFFICES ASSUME NEW c \in C PROVE sums[c] = SumFunctionOnSet(f, rows[c])
    OBVIOUS
  <2> DEFINE g == [i \in DOMAIN part[c] |-> w[part[c][i]]]
  <2>1. sums[c] = SumFunctionOnSet(g, DOMAIN part[c]) BY DEF Worth
  <2>2. \A i \in DOMAIN part[c] : i \in S /\ part[c][i] = tab[i] BY DEF Parted
  <2>3. \A i \in DOMAIN part[c] : g[i] \in Int /\ g[i] = f[i]
    BY <1>3, <2>2
  <2>4. IsFiniteSet(DOMAIN part[c]) BY DEF Parted, IsTable
  <2> HIDE DEF f, g
  <2>5. SumFunctionOnSet(g, DOMAIN part[c]) = SumFunctionOnSet(f, DOMAIN part[c])
    BY <2>3, <2>4, SumOfSame
  <2> QED BY <2>1, <2>5
<1>5. SumFunctionOnSet(f, S) = Worth(tab, w) BY DEF Worth
<1> HIDE DEF f, rows, S
<1>6. SumFunctionOnSet(f, S) = SumFunctionOnSet(sums, C)
  BY <1>1, <1>2, <1>3, <1>4, SumOfParts
<1> QED BY <1>5, <1>6

(* So do rates, weighted by what they are rates of.                        *)
LEMMA RateOfParts ==
  ASSUME NEW C, IsFiniteSet(C), NEW values, DOMAIN values = C,
         values = [c \in C |-> values[c]],
         NEW weights \in [C -> Nat], NEW counts, NEW n, NEW d,
         \A c \in C : /\ counts[c] \in Int /\ IsRate(values[c], counts[c], weights[c])
                      /\ weights[c] = 0 => counts[c] = 0,
         SumFunctionOnSet(counts, C) = n, SumFunctionOnSet(weights, C) = d
  PROVE  IsRate(WeightedMean(values, weights), n, d)
<1>1. values \in [C -> Proper] BY DEF IsRate
<1>2. \A c \in C : /\ counts[c] \in Int
                   /\ Equal(values[c], Fraction(counts[c], weights[c]))
                   /\ weights[c] = 0 => counts[c] = 0
  BY DEF IsRate
<1>3. /\ WeightedMean(values, weights) \in Proper
      /\ Equal(WeightedMean(values, weights),
               Fraction(SumFunctionOnSet(counts, C), SumFunctionOnSet(weights, C)))
  BY <1>1, <1>2, MeanOfRates
<1> QED BY <1>3 DEF IsRate

LEMMA MergedStatistics ==
  ASSUME NEW parts
  PROVE  LET s == MergeStats(parts)
             C == DOMAIN parts
             totals == [c \in C |-> parts[c].total]
             responded == [c \in C |-> parts[c].responded]
             lookups == [c \in C |-> parts[c].lookups]
         IN IF SumFunctionOnSet(totals, C) = 0 THEN s = TargetStatistics(<<>>)
            ELSE /\ s.total = SumFunctionOnSet(totals, C)
                 /\ s.successful = SumFunctionOnSet([c \in C |-> parts[c].successful], C)
                 /\ s.responded = SumFunctionOnSet(responded, C)
                 /\ s.lookups = SumFunctionOnSet(lookups, C)
                 /\ s.transport = WeightedMean([c \in C |-> parts[c].transport], totals)
                 /\ s.unexpected = WeightedMean([c \in C |-> parts[c].unexpected], totals)
                 /\ s.http2 = WeightedMean([c \in C |-> parts[c].http2], responded)
                 /\ s.dns = WeightedMean([c \in C |-> parts[c].dns], lookups)
                 /\ s.expiry = Least([c \in C |-> parts[c].expiry])
                 /\ s.histogram = MergeAll([c \in C |-> parts[c].histogram])
BY DEF MergeStats, Column, SumFunction

LEMMA LeastOfParts ==
  ASSUME NEW C, IsFiniteSet(C), NEW values, DOMAIN values = C,
         NEW V, \A c \in C : V[c] \subseteq Nat /\ IsLeast(values[c], V[c])
  PROVE  IsLeast(Least(values), UNION {V[c] : c \in C})
<1> DEFINE known == {values[c] : c \in C} \ {None}
           all == UNION {V[c] : c \in C}
<1>1. \A c \in C : values[c] \in Nat \cup {None}
  BY DEF IsLeast
<1>2. IsLeast(Least(values), known) BY <1>1, LeastIs
<1>3. CASE known = {}
  <2>1. \A c \in C : values[c] = None BY <1>3
  <2>2. \A c \in C : V[c] = {} BY <2>1 DEF IsLeast, None
  <2>3. all = {} BY <2>2
  <2>4. Least(values) = None BY <1>2, <1>3 DEF IsLeast
  <2> HIDE DEF all
  <2> QED BY <2>3, <2>4 DEF IsLeast, all
<1>4. CASE known # {}
  <2> DEFINE v == Least(values)
  <2>1. v \in known /\ \A y \in known : v <= y BY <1>2, <1>4 DEF IsLeast
  <2>2. PICK c \in C : values[c] = v /\ v # None BY <2>1
  <2>3. v \in V[c] BY <2>2 DEF IsLeast
  <2>4. ASSUME NEW y \in all PROVE v <= y
    <3>1. PICK d \in C : y \in V[d] OBVIOUS
    <3>2. values[d] \in V[d] /\ values[d] <= y BY <3>1 DEF IsLeast
    <3>3. values[d] \in Nat /\ y \in Nat /\ v \in Nat BY <2>2, <2>3, <3>1, <3>2
    <3>4. values[d] \in known BY <3>3 DEF None
    <3> HIDE DEF v, known, all
    <3>5. v <= values[d] BY <2>1, <3>4
    <3> QED BY <3>2, <3>3, <3>5
  <2>5. v \in all BY <2>3
  <2> HIDE DEF v, all
  <2>6. IsLeast(v, all) BY <2>4, <2>5 DEF IsLeast
  <2> QED BY <2>6 DEF v, all
<1> QED BY <1>3, <1>4

(* A rate of a part is of what the part has of it.                         *)
LEMMA Narrower ==
  ASSUME NEW tab, IsTable(tab), NEW P, NEW Q, P \subseteq Q
  PROVE  Count(tab, Q) = 0 => Count(tab, P) = 0
<1>1. At(tab, P) \subseteq At(tab, Q) BY DEF At
<1> QED BY <1>1, TableFacts

LEMMA HundredTimes ==
  ASSUME NEW C, IsFiniteSet(C), NEW counts, \A c \in C : counts[c] \in Nat,
         NEW n, SumFunctionOnSet(counts, C) = n
  PROVE  SumFunctionOnSet([c \in C |-> 100 * counts[c]], C) = 100 * n
<1> DEFINE many == [c \in C |-> 100 * counts[c]]
<1>1. \A c \in C : counts[c] \in Int /\ many[c] = 100 * counts[c] OBVIOUS
<1>2. 100 \in Int OBVIOUS
<1> HIDE DEF many
<1>3. SumFunctionOnSet(many, C) = 100 * SumFunctionOnSet(counts, C)
  BY <1>1, <1>2, SumOfMany
<1> QED BY <1>3 DEF many

(* A hundred times so many: the rates in percent.                          *)
LEMMA PercentOfParts ==
  ASSUME NEW C, NEW part, NEW tab, Parted(C, part, tab),
         NEW P, NEW Q, P \subseteq Q,
         NEW values, DOMAIN values = C, values = [c \in C |-> values[c]],
         NEW weights \in [C -> Nat], \A c \in C : weights[c] = Count(part[c], Q),
         \A c \in C : IsRate(values[c], 100 * Count(part[c], P), Count(part[c], Q))
  PROVE  IsRate(WeightedMean(values, weights), 100 * Count(tab, P), Count(tab, Q))
<1> DEFINE ones == [c \in C |-> Count(part[c], P)]
           counts == [c \in C |-> 100 * ones[c]]
<1>1. IsFiniteSet(C) /\ \A c \in C : IsTable(part[c]) BY DEF Parted
<1>2. \A c \in C : ones[c] = Count(part[c], P) /\ ones[c] \in Nat
  BY <1>1, TableFacts
<1> HIDE DEF ones
<1>3. SumFunctionOnSet(ones, C) = Count(tab, P) BY <1>2, CountOfParts
<1>4. SumFunctionOnSet(counts, C) = 100 * Count(tab, P)
  BY <1>1, <1>2, <1>3, HundredTimes
<1>5. SumFunctionOnSet(weights, C) = Count(tab, Q) BY CountOfParts
<1>6. \A c \in C : /\ counts[c] \in Int /\ IsRate(values[c], counts[c], weights[c])
                   /\ weights[c] = 0 => counts[c] = 0
  <2> SUFFICES ASSUME NEW c \in C
               PROVE  /\ counts[c] \in Int /\ IsRate(values[c], counts[c], weights[c])
                      /\ weights[c] = 0 => counts[c] = 0
    OBVIOUS
  <2>1. counts[c] = 100 * ones[c] OBVIOUS
  <2>2. ones[c] \in Nat /\ ones[c] = Count(part[c], P) BY <1>2
  <2>3. weights[c] = 0 => ones[c] = 0 BY <1>1, <2>2, Narrower
  <2> HIDE DEF counts
  <2> QED BY <2>1, <2>2, <2>3
<1> HIDE DEF counts
<1> QED BY <1>1, <1>4, <1>5, <1>6, RateOfParts

(* Merged statistics of the parts describe the whole.                      *)
LEMMA SortedTogether ==
  ASSUME NEW C, NEW part, NEW tab, Parted(C, part, tab),
         NEW histograms \in [C -> Histograms],
         \A c \in C : Sorted(histograms[c], part[c])
  PROVE  Sorted(MergeAll(histograms), tab)
<1>1. IsFiniteSet(C) BY DEF Parted
<1>2. ASSUME NEW P, NEW m \in [Histograms -> Nat], m[Empty] = 0,
             \A h \in Histograms, g \in Histograms :
               m[MergeHistograms(h, g)] = m[h] + m[g],
             \A c \in C : m[histograms[c]] = Count(part[c], P)
      PROVE  m[MergeAll(histograms)] = Count(tab, P)
  <2> PICK counts : counts = [c \in C |-> m[histograms[c]]] OBVIOUS
  <2>1. m[MergeAll(histograms)] = SumFunctionOnSet(counts, C)
    BY <1>1, <1>2, MeasureOfParts
  <2>2. \A c \in C : counts[c] = Count(part[c], P) BY <1>2
  <2> QED BY <2>1, <2>2, CountOfParts
<1>3. ASSUME NEW b \in Buckets
      PROVE  InBucket[b][MergeAll(histograms)] = Count(tab, Among(b))
  <2> PICK m : m = InBucket[b] OBVIOUS
  <2>1. m \in [Histograms -> Nat] /\ m[Empty] = 0 BY Measures
  <2>2. \A h \in Histograms, g \in Histograms :
          m[MergeHistograms(h, g)] = m[h] + m[g]
    BY Measures
  <2>3. \A c \in C : m[histograms[c]] = Count(part[c], Among(b)) BY DEF Sorted
  <2> QED BY <1>2, <2>1, <2>2, <2>3
<1>4. OutOfRange[MergeAll(histograms)] = Count(tab, Beyond)
  <2>1. OutOfRange \in [Histograms -> Nat] /\ OutOfRange[Empty] = 0 BY Measures
  <2>2. \A h \in Histograms, g \in Histograms :
          OutOfRange[MergeHistograms(h, g)] = OutOfRange[h] + OutOfRange[g]
    BY Measures
  <2>3. \A c \in C : OutOfRange[histograms[c]] = Count(part[c], Beyond) BY DEF Sorted
  <2> QED BY <1>2, <2>1, <2>2, <2>3
<1> QED BY <1>3, <1>4 DEF Sorted

LEMMA DescribedTogether ==
  ASSUME NEW C, NEW part, NEW tab, Parted(C, part, tab),
         NEW parts, DOMAIN parts = C,
         \A c \in C : Described(parts[c], part[c])
  PROVE  Described(MergeStats(parts), tab)
<1> DEFINE s == MergeStats(parts)
           totals == [c \in C |-> parts[c].total]
           responded == [c \in C |-> parts[c].responded]
           lookups == [c \in C |-> parts[c].lookups]
           successful == [c \in C |-> parts[c].successful]
           transport == [c \in C |-> parts[c].transport]
           unexpected == [c \in C |-> parts[c].unexpected]
           http2 == [c \in C |-> parts[c].http2]
           dns == [c \in C |-> parts[c].dns]
           expiry == [c \in C |-> parts[c].expiry]
           histograms == [c \in C |-> parts[c].histogram]
<1>1. IF SumFunctionOnSet(totals, C) = 0 THEN s = TargetStatistics(<<>>)
      ELSE /\ s.total = SumFunctionOnSet(totals, C)
           /\ s.successful = SumFunctionOnSet(successful, C)
           /\ s.responded = SumFunctionOnSet(responded, C)
           /\ s.lookups = SumFunctionOnSet(lookups, C)
           /\ s.transport = WeightedMean(transport, totals)
           /\ s.unexpected = WeightedMean(unexpected, totals)
           /\ s.http2 = WeightedMean(http2, responded)
           /\ s.dns = WeightedMean(dns, lookups)
           /\ s.expiry = Least(expiry)
           /\ s.histogram = MergeAll(histograms)
  BY MergedStatistics
<1>2. IsFiniteSet(C) /\ IsTable(tab) /\ \A c \in C : IsTable(part[c])
  BY DEF Parted
<1>3. \A c \in C : /\ totals[c] = Count(part[c], Kinds)
                   /\ responded[c] = Count(part[c], Answers)
                   /\ lookups[c] = Count(part[c], Searches)
                   /\ successful[c] = Count(part[c], Completed)
  BY DEF Described
<1>4. /\ totals \in [C -> Nat] /\ responded \in [C -> Nat] /\ lookups \in [C -> Nat]
  <2>1. \A c \in C : /\ Count(part[c], Kinds) \in Nat
                     /\ Count(part[c], Answers) \in Nat
                     /\ Count(part[c], Searches) \in Nat
    BY <1>2, TableFacts
  <2> QED BY <1>3, <2>1
<1>5. /\ SumFunctionOnSet(totals, C) = Count(tab, Kinds)
      /\ SumFunctionOnSet(responded, C) = Count(tab, Answers)
      /\ SumFunctionOnSet(lookups, C) = Count(tab, Searches)
      /\ SumFunctionOnSet(successful, C) = Count(tab, Completed)
  <2> HIDE DEF totals, responded, lookups, successful
  <2>1. SumFunctionOnSet(totals, C) = Count(tab, Kinds) BY <1>3, CountOfParts
  <2>2. SumFunctionOnSet(responded, C) = Count(tab, Answers) BY <1>3, CountOfParts
  <2>3. SumFunctionOnSet(lookups, C) = Count(tab, Searches) BY <1>3, CountOfParts
  <2>4. SumFunctionOnSet(successful, C) = Count(tab, Completed) BY <1>3, CountOfParts
  <2> QED BY <2>1, <2>2, <2>3, <2>4
<1>6. CASE SumFunctionOnSet(totals, C) = 0
  <2>1. DOMAIN tab = {} BY <1>2, <1>5, <1>6, TableFacts
  <2>2. tab = <<>>
    <3>1. tab \in [{} -> Kinds] BY <1>2, <2>1 DEF IsTable
    <3>2. 1 .. 0 = {} OBVIOUS
    <3> QED BY <3>1, <3>2
  <2>3. s = TargetStatistics(tab) BY <1>1, <1>6, <2>2
  <2> HIDE DEF s
  <2> QED BY <1>2, <2>3, DescribedAlone DEF s
<1>7. CASE SumFunctionOnSet(totals, C) # 0
  <2>1. /\ s.total = Count(tab, Kinds) /\ s.successful = Count(tab, Completed)
        /\ s.responded = Count(tab, Answers) /\ s.lookups = Count(tab, Searches)
    BY <1>1, <1>5, <1>7
  <2>2. /\ s.transport = WeightedMean(transport, totals)
        /\ s.unexpected = WeightedMean(unexpected, totals)
        /\ s.http2 = WeightedMean(http2, responded)
        /\ s.dns = WeightedMean(dns, lookups)
        /\ s.expiry = Least(expiry) /\ s.histogram = MergeAll(histograms)
    BY <1>1, <1>7
  <2>3. /\ transport = [c \in C |-> transport[c]] /\ DOMAIN transport = C
        /\ unexpected = [c \in C |-> unexpected[c]] /\ DOMAIN unexpected = C
        /\ http2 = [c \in C |-> http2[c]] /\ DOMAIN http2 = C
        /\ dns = [c \in C |-> dns[c]] /\ DOMAIN dns = C
        /\ DOMAIN expiry = C
    OBVIOUS
  <2>4. \A c \in C :
          /\ IsRate(transport[c], 100 * Count(part[c], Kinds \ Answers),
                    Count(part[c], Kinds))
          /\ IsRate(unexpected[c], 100 * Count(part[c], Unexpected),
                    Count(part[c], Kinds))
          /\ IsRate(http2[c], 100 * Count(part[c], OverHttp2), Count(part[c], Answers))
          /\ IsRate(dns[c], Worth(part[c], SearchOf), Count(part[c], Searches))
          /\ IsLeast(expiry[c], ExpirySet(part[c]))
    BY DEF Described
  <2>5. \A c \in C :
          /\ histograms[c] \in Histograms
          /\ histograms[c].count = Count(part[c], Answers)
          /\ histograms[c].total = Worth(part[c], LatencyOf)
          /\ IsLeast(histograms[c].min_ms, LatencySet(part[c]))
          /\ IsGreatest(histograms[c].max_ms, LatencySet(part[c]))
    BY DEF Described
  <2>5a. \A c \in C : Sorted(histograms[c], part[c]) BY DEF Described
  <2>6. histograms \in [C -> Histograms] BY <2>5
  <2>7. /\ Unexpected \subseteq Kinds /\ OverHttp2 \subseteq Answers
        /\ Searches \subseteq Kinds /\ Answers \subseteq Kinds
        /\ Kinds \ Answers \subseteq Kinds
    BY DEF Unexpected, OverHttp2, Searches, Answers
  <2> HIDE DEF s, totals, responded, lookups, transport, unexpected, http2, dns,
               expiry, histograms
  <2>8. IsRate(s.transport, 100 * Count(tab, Kinds \ Answers), Count(tab, Kinds))
    <3>1. PICK F : F = Kinds \ Answers OBVIOUS
    <3>2. F \subseteq Kinds BY <3>1
    <3>3. \A c \in C : IsRate(transport[c], 100 * Count(part[c], F), Count(part[c], Kinds))
      BY <2>4, <3>1
    <3>4. IsRate(WeightedMean(transport, totals), 100 * Count(tab, F), Count(tab, Kinds))
      BY <1>3, <1>4, <2>3, <3>2, <3>3, PercentOfParts
    <3> QED BY <2>2, <3>1, <3>4
  <2>9. IsRate(s.unexpected, 100 * Count(tab, Unexpected), Count(tab, Kinds))
    BY <1>3, <1>4, <2>2, <2>3, <2>4, <2>7, PercentOfParts
  <2>10. IsRate(s.http2, 100 * Count(tab, OverHttp2), Count(tab, Answers))
    BY <1>3, <1>4, <2>2, <2>3, <2>4, <2>7, PercentOfParts
  <2>11. IsRate(s.dns, Worth(tab, SearchOf), Count(tab, Searches))
    <3> DEFINE sums == [c \in C |-> Worth(part[c], SearchOf)]
    <3>1. /\ SearchOf \in [Kinds -> Nat] /\ \A k \in Kinds \ Searches : SearchOf[k] = 0
          /\ Searches \in SUBSET Kinds
      BY <2>7, ValuesOf
    <3>2. \A c \in C : sums[c] = Worth(part[c], SearchOf) OBVIOUS
    <3> HIDE DEF sums
    <3>3. SumFunctionOnSet(sums, C) = Worth(tab, SearchOf)
      BY <3>1, <3>2, WorthOfParts
    <3>4. \A c \in C : sums[c] \in Int /\ (lookups[c] = 0 => sums[c] = 0)
      <4> SUFFICES ASSUME NEW c \in C
                   PROVE  sums[c] \in Int /\ (lookups[c] = 0 => sums[c] = 0)
        OBVIOUS
      <4> DEFINE A == At(part[c], Searches)
                 f == [i \in A |-> SearchOf[part[c][i]]]
      <4>1. IsTable(part[c]) BY <1>2
      <4>2. \A i \in A : f[i] = SearchOf[part[c][i]] OBVIOUS
      <4> HIDE DEF f
      <4>3. /\ Worth(part[c], SearchOf) \in Nat
            /\ SumFunctionOnSet(f, A) = Worth(part[c], SearchOf)
        BY <3>1, <4>1, <4>2, WorthIs
      <4>4. lookups[c] = 0 => A = {} BY <1>3, <4>1, TableFacts
      <4>5. SumFunctionOnSet(f, {}) = 0 BY SumOfNone
      <4> QED BY <3>2, <4>3, <4>4, <4>5
    <3>5. \A c \in C : /\ sums[c] \in Int /\ IsRate(dns[c], sums[c], lookups[c])
                       /\ lookups[c] = 0 => sums[c] = 0
      BY <1>3, <2>4, <3>2, <3>4
    <3>6. SumFunctionOnSet(lookups, C) = Count(tab, Searches) BY <1>5
    <3>7. IsFiniteSet(C) /\ lookups \in [C -> Nat] BY <1>2, <1>4
    <3>8. IsRate(WeightedMean(dns, lookups), Worth(tab, SearchOf), Count(tab, Searches))
      BY <2>3, <3>3, <3>5, <3>6, <3>7, RateOfParts
    <3> QED BY <2>2, <3>8
  <2>12. IsLeast(s.expiry, ExpirySet(tab))
    <3> DEFINE V == [c \in C |-> ExpirySet(part[c])]
    <3>1. \A c \in C : V[c] \subseteq Nat
      <4> SUFFICES ASSUME NEW c \in C, NEW i \in DOMAIN part[c]
                   PROVE  part[c][i].expiry \in Nat \cup {None}
        BY DEF ExpirySet
      <4>1. part[c][i] \in Outcomes BY <1>2, TableFacts
      <4> QED BY <4>1 DEF Outcomes
    <3>2. \A c \in C : V[c] \subseteq Nat /\ IsLeast(expiry[c], V[c]) BY <2>4, <3>1
    <3>3. UNION {V[c] : c \in C} = ExpirySet(tab)
      <4>1. ASSUME NEW x \in ExpirySet(tab) PROVE \E c \in C : x \in V[c]
        <5>1. PICK i \in DOMAIN tab : x = tab[i].expiry /\ x # None BY DEF ExpirySet
        <5>2. PICK c \in C : i \in DOMAIN part[c] BY DEF Parted
        <5>3. part[c][i] = tab[i] BY <5>2 DEF Parted
        <5> QED BY <5>1, <5>2, <5>3 DEF ExpirySet
      <4>2. ASSUME NEW c \in C, NEW x \in V[c] PROVE x \in ExpirySet(tab)
        <5>1. PICK i \in DOMAIN part[c] : x = part[c][i].expiry /\ x # None
          BY DEF ExpirySet
        <5>2. i \in DOMAIN tab /\ part[c][i] = tab[i] BY DEF Parted
        <5> QED BY <5>1, <5>2 DEF ExpirySet
      <4> HIDE DEF V
      <4> QED BY <4>1, <4>2
    <3> HIDE DEF V
    <3>4. IsLeast(Least(expiry), UNION {V[c] : c \in C})
      BY <1>2, <2>3, <3>2, LeastOfParts
    <3> QED BY <2>2, <3>3, <3>4
  <2>13. /\ s.histogram \in Histograms
         /\ s.histogram.count = Count(tab, Answers)
         /\ s.histogram.total = Worth(tab, LatencyOf)
         /\ IsLeast(s.histogram.min_ms, LatencySet(tab))
         /\ IsGreatest(s.histogram.max_ms, LatencySet(tab))
    <3> DEFINE V == [c \in C |-> LatencySet(part[c])]
               counts == [c \in C |-> histograms[c].count]
               sums == [c \in C |-> histograms[c].total]
    <3>1. \A c \in C : V[c] \subseteq Nat
      <4> SUFFICES ASSUME NEW c \in C, NEW i \in At(part[c], Answers)
                   PROVE  part[c][i].total_ms \in Nat
        BY DEF LatencySet
      <4>1. part[c][i] \in Outcomes BY <1>2, TableFacts
      <4> QED BY <4>1 DEF Outcomes
    <3>2. \A c \in C : /\ V[c] \subseteq Nat
                       /\ IsLeast(histograms[c].min_ms, V[c])
                       /\ IsGreatest(histograms[c].max_ms, V[c])
      BY <2>5, <3>1
    <3>3. UNION {V[c] : c \in C} = LatencySet(tab)
      <4>1. ASSUME NEW x \in LatencySet(tab) PROVE \E c \in C : x \in V[c]
        <5>1. PICK i \in DOMAIN tab : x = tab[i].total_ms /\ tab[i] \in Answers
          BY DEF LatencySet, At
        <5>2. PICK c \in C : i \in DOMAIN part[c] BY DEF Parted
        <5>3. part[c][i] = tab[i] BY <5>2 DEF Parted
        <5> QED BY <5>1, <5>2, <5>3 DEF LatencySet, At
      <4>2. ASSUME NEW c \in C, NEW x \in V[c] PROVE x \in LatencySet(tab)
        <5>1. PICK i \in DOMAIN part[c] : x = part[c][i].total_ms /\ part[c][i] \in Answers
          BY DEF LatencySet, At
        <5>2. i \in DOMAIN tab /\ part[c][i] = tab[i] BY DEF Parted
        <5> QED BY <5>1, <5>2 DEF LatencySet, At
      <4> HIDE DEF V
      <4> QED BY <4>1, <4>2
    <3>4. \A c \in C : /\ counts[c] = Count(part[c], Answers)
                       /\ sums[c] = Worth(part[c], LatencyOf)
      BY <2>5
    <3>5. LatencyOf \in [Kinds -> Nat] BY ValuesOf
    <3>6. /\ MergeAll(histograms) \in Histograms
          /\ MergeAll(histograms).count = SumFunctionOnSet(counts, C)
          /\ MergeAll(histograms).total = SumFunctionOnSet(sums, C)
          /\ IsLeast(MergeAll(histograms).min_ms, UNION {V[c] : c \in C})
          /\ IsGreatest(MergeAll(histograms).max_ms, UNION {V[c] : c \in C})
      <4> HIDE DEF V
      <4>1. IsHistogramOf(MergeAll(histograms), C, histograms, V)
        BY <1>2, <2>6, <3>2, HistogramOfParts
      <4> QED BY <4>1 DEF IsHistogramOf
    <3> HIDE DEF V, counts, sums
    <3>7. SumFunctionOnSet(counts, C) = Count(tab, Answers)
      BY <3>4, CountOfParts
    <3>8. SumFunctionOnSet(sums, C) = Worth(tab, LatencyOf)
      BY <3>4, <3>5, WorthOfParts
    <3> QED BY <2>2, <3>3, <3>6, <3>7, <3>8
  <2>14. Sorted(s.histogram, tab) BY <2>2, <2>5a, <2>6, SortedTogether
  <2> QED BY <2>1, <2>8, <2>9, <2>10, <2>11, <2>12, <2>13, <2>14 DEF Described, s
<1> QED BY <1>6, <1>7

(* Described is what Describes says.                                       *)
LEMMA DescribedDescribes ==
  ASSUME NEW s, NEW tab, IsTable(tab), Described(s, tab)
  PROVE  Describes(s, tab)
<1> DEFINE D == DOMAIN tab
           A == {i \in D : tab[i].responded}
           L == {i \in A : tab[i].dns_ms # None}
           total_ms == [i \in D |-> tab[i].total_ms]
           dns_ms == [i \in D |-> tab[i].dns_ms]
<1>1. \A i \in D : tab[i] \in Kinds /\ tab[i] \in Outcomes BY TableFacts
<1>2. /\ D = At(tab, Kinds) /\ A = At(tab, Answers) /\ L = At(tab, Searches)
      /\ {i \in D : tab[i].completed} = At(tab, Completed)
      /\ {i \in D : tab[i].responded /\ ~ tab[i].expected} = At(tab, Unexpected)
      /\ {i \in D : tab[i].responded /\ tab[i].http2} = At(tab, OverHttp2)
  BY <1>1 DEF At, Answers, Searches, Completed, Unexpected, OverHttp2
<1>3. Count(tab, Kinds \ Answers) = Cardinality(D) - Cardinality(A)
  <2>1. At(tab, Kinds \ Answers) = D \ A BY <1>1 DEF At, Answers
  <2>2. IsFiniteSet(D) /\ D \cap A = A BY DEF IsTable
  <2>3. Cardinality(D \ A) = Cardinality(D) - Cardinality(D \cap A)
    BY <2>2, FS_Difference
  <2> QED BY <2>1, <2>2, <2>3 DEF Count
<1>4. Worth(tab, SearchOf) = SumFunctionOnSet(dns_ms, L)
  <2>1. \A i \in L : dns_ms[i] = SearchOf[tab[i]]
    BY <1>2, ValuesOf DEF At
  <2>2. /\ SearchOf \in [Kinds -> Nat] /\ \A k \in Kinds \ Searches : SearchOf[k] = 0
        /\ Searches \in SUBSET Kinds
    BY ValuesOf DEF Searches, Answers
  <2> HIDE DEF dns_ms, L
  <2> QED BY <1>2, <2>1, <2>2, WorthIs
<1>5. Worth(tab, LatencyOf) = SumFunctionOnSet(total_ms, A)
  <2>1. \A i \in A : total_ms[i] = LatencyOf[tab[i]]
    BY <1>2, ValuesOf DEF At
  <2>2. /\ LatencyOf \in [Kinds -> Nat] /\ \A k \in Kinds \ Answers : LatencyOf[k] = 0
        /\ Answers \in SUBSET Kinds
    BY ValuesOf DEF Answers
  <2> HIDE DEF total_ms, A
  <2> QED BY <1>2, <2>1, <2>2, WorthIs
<1>6. ExpirySet(tab) \subseteq Nat /\ LatencySet(tab) \subseteq Nat
      /\ ExpirySet(tab) = {tab[i].expiry : i \in D} \ {None}
      /\ LatencySet(tab) = {tab[i].total_ms : i \in A}
      /\ (A = {} <=> LatencySet(tab) = {})
  <2>1. \A i \in D : tab[i].expiry \in Nat \cup {None} /\ tab[i].total_ms \in Nat
    BY <1>1 DEF Outcomes
  <2>2. LatencySet(tab) = {tab[i].total_ms : i \in A} BY <1>2 DEF LatencySet
  <2> QED BY <2>1, <2>2 DEF ExpirySet
<1>7. /\ s.expiry = IF ExpirySet(tab) = {} THEN None ELSE Min(ExpirySet(tab))
      /\ s.histogram.min_ms = IF LatencySet(tab) = {} THEN None ELSE Min(LatencySet(tab))
      /\ s.histogram.max_ms = IF LatencySet(tab) = {} THEN None ELSE Max(LatencySet(tab))
  BY <1>6, ExtremesAre DEF Described
<1> DEFINE h == s.histogram
           certificates == {tab[i].expiry : i \in D} \ {None}
           latencies == {tab[i].total_ms : i \in A}
           answers == Cardinality(A)
           total == Cardinality(D)
<1>8. /\ s.total = total
      /\ s.successful = Cardinality({i \in D : tab[i].completed})
      /\ s.responded = answers
  BY <1>2 DEF Described, Count
<1>9. /\ Equal(s.transport, Fraction(100 * (total - answers), total))
      /\ Equal(s.unexpected,
               Fraction(100 * Cardinality({i \in D : tab[i].responded /\ ~ tab[i].expected}),
                        total))
      /\ Equal(s.http2,
               Fraction(100 * Cardinality({i \in D : tab[i].responded /\ tab[i].http2}),
                        answers))
      /\ Equal(s.dns, Fraction(SumFunctionOnSet(dns_ms, L), Cardinality(L)))
  BY <1>2, <1>3, <1>4 DEF Described, IsRate, Count
<1>10. h.count = answers /\ h.total = SumFunctionOnSet(total_ms, A)
  BY <1>2, <1>5 DEF Described, Count
<1>11. /\ s.expiry = IF certificates = {} THEN None ELSE Min(certificates)
       /\ h.min_ms = IF A = {} THEN None ELSE Min(latencies)
       /\ h.max_ms = IF A = {} THEN None ELSE Max(latencies)
  BY <1>6, <1>7
<1> QED BY <1>8, <1>9, <1>10, <1>11 DEF Describes, Number, Column

-------------------------------------------------------------------------------
(* Windows, and whole summaries.                                           *)

(* The rows of a table that completed in a window, and the windows in which *)
(* any did.                                                                 *)
InWindow(tab, bucket, w) == RestrictValues(tab, LAMBDA r : Window(r, bucket) = w)

WindowsIn(tab, bucket) == {Window(tab[i], bucket) : i \in DOMAIN tab}

(* The summary s tells exactly what is in the table.                       *)
Tells(s, tab) ==
  /\ Described(s.stats, tab)
  /\ s.errors = Count(tab, Kinds \ Completed)
  /\ DOMAIN s.intervals = WindowsIn(tab, s.bucket)
  /\ \A w \in DOMAIN s.intervals :
       Described(s.intervals[w], InWindow(tab, s.bucket, w))

IsWindow(window, tab, bucket, w) ==
  /\ IsTable(window)
  /\ DOMAIN window = {i \in DOMAIN tab : Window(tab[i], bucket) = w}
  /\ \A i \in DOMAIN window : window[i] = tab[i]

LEMMA WindowTable ==
  ASSUME NEW tab, IsTable(tab), NEW bucket, NEW w
  PROVE  IsWindow(InWindow(tab, bucket, w), tab, bucket, w)
<1> DEFINE S == {i \in DOMAIN tab : Window(tab[i], bucket) = w}
           window == [i \in S |-> tab[i]]
<1>1. InWindow(tab, bucket, w) = window BY DEF InWindow, RestrictValues, Restrict
<1>2. IsFiniteSet(S) BY FS_Subset DEF IsTable
<1>3. \A i \in S : tab[i] \in Kinds BY DEF IsTable
<1> QED BY <1>1, <1>2, <1>3 DEF IsTable, IsWindow

LEMMA TellsAlone ==
  ASSUME NEW tab, IsTable(tab), NEW s,
         s.stats = TargetStatistics(tab),
         s.errors = Number(tab, LAMBDA r : ~ r.completed),
         s.intervals = Intervals(tab, s.bucket)
  PROVE  Tells(s, tab)
<1>1. Described(s.stats, tab) BY DescribedAlone
<1>2. s.errors = Count(tab, Kinds \ Completed)
  <2>1. At(tab, Kinds \ Completed) = {i \in DOMAIN tab : ~ tab[i].completed}
    BY TableFacts DEF At, Completed
  <2> QED BY <2>1 DEF Count, Number
<1>3. s.intervals = [w \in WindowsIn(tab, s.bucket) |->
                       TargetStatistics(InWindow(tab, s.bucket, w))]
  BY DEF Intervals, WindowsIn, InWindow
<1>4. ASSUME NEW w PROVE Described(TargetStatistics(InWindow(tab, s.bucket, w)),
                                   InWindow(tab, s.bucket, w))
  BY WindowTable, DescribedAlone DEF IsWindow
<1> QED BY <1>1, <1>2, <1>3, <1>4 DEF Tells

(* A window of the whole is cut into the windows of the parts that have it. *)
LEMMA PartedWindow ==
  ASSUME NEW C, NEW part, NEW tab, Parted(C, part, tab), NEW bucket, NEW w
  PROVE  LET D == {c \in C : w \in WindowsIn(part[c], bucket)}
         IN Parted(D, [c \in D |-> InWindow(part[c], bucket, w)],
                   InWindow(tab, bucket, w))
<1> DEFINE D == {c \in C : w \in WindowsIn(part[c], bucket)}
           cut == [c \in D |-> InWindow(part[c], bucket, w)]
           window == InWindow(tab, bucket, w)
<1>1. IsFiniteSet(D) BY FS_Subset DEF Parted
<1>2. IsWindow(window, tab, bucket, w) BY WindowTable DEF Parted
<1>3. \A c \in D : IsWindow(cut[c], part[c], bucket, w)
  <2> SUFFICES ASSUME NEW c \in D PROVE IsWindow(cut[c], part[c], bucket, w)
    OBVIOUS
  <2>1. IsWindow(InWindow(part[c], bucket, w), part[c], bucket, w)
    BY WindowTable DEF Parted
  <2> QED BY <2>1
<1>4. \A c \in D : \A i \in DOMAIN part[c] : i \in DOMAIN tab /\ part[c][i] = tab[i]
  BY DEF Parted
<1>5. ASSUME NEW i \in DOMAIN window PROVE \E c \in D : i \in DOMAIN cut[c]
  <2>1. i \in DOMAIN tab /\ Window(tab[i], bucket) = w BY <1>2 DEF IsWindow
  <2>2. PICK c \in C : i \in DOMAIN part[c] BY <2>1 DEF Parted
  <2>3. Window(part[c][i], bucket) = w BY <2>1, <2>2 DEF Parted
  <2>4. c \in D BY <2>2, <2>3 DEF WindowsIn
  <2>5. IsWindow(cut[c], part[c], bucket, w) BY <1>3, <2>4
  <2> QED BY <2>2, <2>3, <2>4, <2>5 DEF IsWindow
<1>6. \A c, d \in D : c # d => DOMAIN part[c] \cap DOMAIN part[d] = {}
  BY DEF Parted
<1> HIDE DEF D, cut, window
<1>7. ASSUME NEW c \in D
      PROVE  /\ IsTable(cut[c])
             /\ \A i \in DOMAIN cut[c] : i \in DOMAIN window /\ cut[c][i] = window[i]
  BY <1>2, <1>3, <1>4 DEF IsWindow
<1>8. \A c, d \in D : c # d => DOMAIN cut[c] \cap DOMAIN cut[d] = {}
  BY <1>3, <1>6 DEF IsWindow
<1>9. Parted(D, cut, window) BY <1>1, <1>2, <1>5, <1>7, <1>8 DEF Parted, IsWindow
<1> QED BY <1>9 DEF D, cut, window

(* Of several summaries.                                                   *)
IsMerge(s, summaries, C) ==
  LET Of(w) == {c \in C : w \in DOMAIN summaries[c].intervals}
      windows == UNION {DOMAIN summaries[c].intervals : c \in C}
  IN /\ s.stats = MergeStats([c \in C |-> summaries[c].stats])
     /\ s.errors = SumFunctionOnSet([c \in C |-> summaries[c].errors], C)
     /\ s.intervals = [w \in windows |->
                         MergeStats([c \in Of(w) |-> summaries[c].intervals[w]])]
     /\ s.epoch = Least([c \in C |-> summaries[c].epoch])
     /\ s.bucket = summaries[CHOOSE c \in C : TRUE].bucket
     /\ s.paced = \A c \in C : summaries[c].paced

LEMMA MergedFields ==
  ASSUME NEW C, Cardinality(C) # 1, NEW summaries, DOMAIN summaries = C
  PROVE  IsMerge(MergeSummaries(summaries), summaries, C)
<1> DEFINE Of(w) == {c \in C : w \in DOMAIN summaries[c].intervals}
<1>1. ASSUME NEW w
      PROVE  Column(RestrictValues(summaries, LAMBDA s : w \in DOMAIN s.intervals),
                    LAMBDA s : s.intervals[w])
               = [c \in Of(w) |-> summaries[c].intervals[w]]
  BY DEF Column, RestrictValues, Restrict
<1> QED BY <1>1 DEF IsMerge, MergeSummaries, Column, SumFunction

(* The merged summary tells of the whole what its parts tell of theirs.    *)
LEMMA TellsTogether ==
  ASSUME NEW C, NEW part, NEW tab, Parted(C, part, tab), C # {}, Cardinality(C) # 1,
         NEW summaries, DOMAIN summaries = C,
         \A c \in C : Tells(summaries[c], part[c]),
         \A c, d \in C : summaries[c].bucket = summaries[d].bucket
  PROVE  Tells(MergeSummaries(summaries), tab)
<1> DEFINE s == MergeSummaries(summaries)
           stats == [c \in C |-> summaries[c].stats]
           errors == [c \in C |-> summaries[c].errors]
           windows == UNION {DOMAIN summaries[c].intervals : c \in C}
           Of(w) == {c \in C : w \in DOMAIN summaries[c].intervals}
           Said(w) == [c \in Of(w) |-> summaries[c].intervals[w]]
<1>1. /\ s.stats = MergeStats(stats)
      /\ s.errors = SumFunctionOnSet(errors, C)
      /\ s.intervals = [w \in windows |-> MergeStats(Said(w))]
      /\ s.bucket = summaries[CHOOSE c \in C : TRUE].bucket
  <2>1. IsMerge(s, summaries, C) BY MergedFields
  <2> HIDE DEF s
  <2> QED BY <2>1 DEF IsMerge
<1> PICK bucket : bucket = s.bucket OBVIOUS
<1>2. \A c \in C : summaries[c].bucket = bucket BY <1>1
<1>3. DOMAIN s.intervals = windows
      /\ \A w \in windows : s.intervals[w] = MergeStats(Said(w))
  BY <1>1
<1> HIDE DEF s
<1>4. Described(s.stats, tab)
  <2>1. \A c \in C : Described(stats[c], part[c]) BY DEF Tells
  <2>2. DOMAIN stats = C OBVIOUS
  <2> HIDE DEF stats
  <2>3. Described(MergeStats(stats), tab) BY <2>1, <2>2, DescribedTogether
  <2> QED BY <1>1, <2>3
<1>5. s.errors = Count(tab, Kinds \ Completed)
  <2>1. PICK F : F = Kinds \ Completed OBVIOUS
  <2>2. \A c \in C : errors[c] = Count(part[c], F) BY <2>1 DEF Tells
  <2> HIDE DEF errors
  <2>3. SumFunctionOnSet(errors, C) = Count(tab, F) BY <2>2, CountOfParts
  <2> QED BY <1>1, <2>1, <2>3
<1>6. \A c \in C : DOMAIN summaries[c].intervals = WindowsIn(part[c], bucket)
  BY <1>2 DEF Tells
<1>7. windows = WindowsIn(tab, bucket)
  <2>1. ASSUME NEW w \in windows PROVE w \in WindowsIn(tab, bucket)
    <3>1. PICK c \in C : w \in WindowsIn(part[c], bucket) BY <1>6
    <3>2. PICK i \in DOMAIN part[c] : w = Window(part[c][i], bucket)
      BY <3>1 DEF WindowsIn
    <3>3. i \in DOMAIN tab /\ part[c][i] = tab[i] BY <3>2 DEF Parted
    <3> QED BY <3>2, <3>3 DEF WindowsIn
  <2>2. ASSUME NEW w \in WindowsIn(tab, bucket) PROVE w \in windows
    <3>1. PICK i \in DOMAIN tab : w = Window(tab[i], bucket) BY DEF WindowsIn
    <3>2. PICK c \in C : i \in DOMAIN part[c] BY DEF Parted
    <3>3. part[c][i] = tab[i] BY <3>2 DEF Parted
    <3>4. w \in WindowsIn(part[c], bucket) BY <3>1, <3>2, <3>3 DEF WindowsIn
    <3> QED BY <1>6, <3>4
  <2> QED BY <2>1, <2>2
<1>8. ASSUME NEW w \in windows
      PROVE  Described(s.intervals[w], InWindow(tab, bucket, w))
  <2> PICK D : D = {c \in C : w \in WindowsIn(part[c], bucket)} OBVIOUS
  <2> PICK cut : cut = [c \in D |-> InWindow(part[c], bucket, w)] OBVIOUS
  <2> PICK said : said = Said(w) OBVIOUS
  <2>1. Parted(D, cut, InWindow(tab, bucket, w)) BY PartedWindow
  <2>2. D = Of(w) BY <1>6
  <2>3. DOMAIN said = D BY <2>2
  <2>4. ASSUME NEW c \in D PROVE Described(said[c], cut[c])
    <3>1. said[c] = summaries[c].intervals[w] BY <2>2
    <3>2. c \in C /\ w \in DOMAIN summaries[c].intervals BY <2>2
    <3>3. cut[c] = InWindow(part[c], bucket, w) OBVIOUS
    <3> QED BY <1>2, <3>1, <3>2, <3>3 DEF Tells
  <2>5. Described(MergeStats(said), InWindow(tab, bucket, w))
    BY <2>1, <2>3, <2>4, DescribedTogether
  <2> QED BY <1>3, <2>5
<1> HIDE DEF windows
<1>9. Tells(s, tab) BY <1>3, <1>4, <1>5, <1>7, <1>8 DEF Tells
<1> QED BY <1>9 DEF s

-------------------------------------------------------------------------------
(* Which files may be merged: what a summary tells of its runs.             *)

LEMMA SummaryFields ==
  ASSUME NEW n
  PROVE  LET s == Summarize(n)
         IN /\ s.epoch = start[n].epoch /\ s.clock_offset = start[n].clock_offset
            /\ s.bucket = start[n].bucket /\ s.paced = start[n].paced
BY DEF Summarize

(* A merge of one file is that file's summary, and a merge of several has   *)
(* the first epoch, and windows and mode of files of theirs.               *)
LEMMA MergedSummary ==
  ASSUME NEW chosen, IsFiniteSet(chosen), chosen # {}
  PROVE  LET s == merge_payloads(chosen)
             epochs == {f.summary.epoch : f \in chosen}
         IN IF Cardinality(chosen) = 1
            THEN \E f \in chosen : chosen = {f} /\ s = f.summary
            ELSE /\ s.epoch = IF epochs \ {None} = {} THEN None
                             ELSE Min(epochs \ {None})
                 /\ \E f \in chosen : s.bucket = f.summary.bucket
                 /\ s.paced = \A f \in chosen : f.summary.paced
<1> DEFINE summaries == [f \in chosen |-> f.summary]
           epochs == {f.summary.epoch : f \in chosen}
           s == MergeSummaries(summaries)
<1>1. merge_payloads(chosen) = s BY DEF merge_payloads
<1>2. ASSUME Cardinality(chosen) = 1
      PROVE  \E f \in chosen : chosen = {f} /\ s = f.summary
  <2>1. PICK g \in chosen : g = CHOOSE f \in chosen : TRUE OBVIOUS
  <2>2. \A f \in chosen : f = g
    <3> SUFFICES ASSUME NEW f \in chosen, f # g PROVE FALSE OBVIOUS
    <3>1. IsFiniteSet(chosen \ {f}) /\ Cardinality(chosen \ {f}) = 0
      BY <1>2, FS_RemoveElement
    <3>2. chosen \ {f} = {} BY <3>1, FS_EmptySet
    <3> QED BY <3>2
  <2>3. s = g.summary BY <1>2, <2>1 DEF MergeSummaries
  <2> QED BY <2>2, <2>3
<1>3. ASSUME Cardinality(chosen) # 1
      PROVE  /\ s.epoch = IF epochs \ {None} = {} THEN None
                         ELSE Min(epochs \ {None})
             /\ \E f \in chosen : s.bucket = f.summary.bucket
             /\ s.paced = \A f \in chosen : f.summary.paced
  <2> DEFINE column == [f \in chosen |-> summaries[f].epoch]
  <2>1. /\ s.epoch = Least(column)
        /\ s.bucket = summaries[CHOOSE f \in chosen : TRUE].bucket
        /\ s.paced = \A f \in chosen : summaries[f].paced
    <3>1. DOMAIN summaries = chosen OBVIOUS
    <3>2. IsMerge(s, summaries, chosen) BY <1>3, <3>1, MergedFields
    <3> HIDE DEF s
    <3> QED BY <3>2 DEF IsMerge
  <2>2. epochs = {column[f] : f \in DOMAIN column} OBVIOUS
  <2>3. Least(column) = IF epochs \ {None} = {} THEN None
                        ELSE Min(epochs \ {None})
    BY <2>2 DEF Least
  <2> QED BY <2>1, <2>3
<1> QED BY <1>1, <1>2, <1>3

(* The epoch of a file is the first of its runs', or none has any: each run *)
(* that was merged in may lie a tolerance further from it.                 *)
Origins(f) ==
  LET e == f.summary.epoch
  IN \/ e = None /\ \A n \in f.of : start[n].epoch = None
     \/ /\ e \in Nat
        /\ \A n \in f.of :
             /\ start[n].epoch \in Nat /\ e <= start[n].epoch
             /\ start[n].epoch <= e + EpochTolerance * (Cardinality(f.of) - 1)

(* A summary tells the windows and the mode of all its runs, and the clock *)
(* offset as long as it stands for one run only.                           *)
Likeness(f) ==
  \A n \in f.of :
    /\ start[n].bucket = f.summary.bucket /\ start[n].paced = f.summary.paced
    /\ IF f.of = {n} THEN f.summary.clock_offset = start[n].clock_offset
       ELSE Abs(start[n].clock_offset) <= SkewTolerance

FileInv ==
  /\ ReportTypeOK /\ IsFiniteSet(files)
  /\ \A f \in files : Origins(f) /\ Likeness(f)

LEMMA JudgedType == ASSUME NEW s PROVE Judged(s) \in {0, 1}
BY DEF Judged

LEMMA ReportInitEstablishes == ReportInit => FileInv
<1> SUFFICES ASSUME ReportInit PROVE FileInv OBVIOUS
<1> USE DEF ReportInit
<1>1. [start |-> start, criteria |-> criteria] \in Launches
  <2>1. PICK s \in Launches : start = s.start /\ criteria = s.criteria OBVIOUS
  <2>2. s = [start |-> s.start, criteria |-> s.criteria]
    BY <2>1, LaunchesAssumption
  <2> QED BY <2>1, <2>2
<1>2. \A n \in Nodes : timed_results[n] \in BoundedSeq(Kinds, MaxResults[n])
  <2> SUFFICES ASSUME NEW n \in Nodes
               PROVE  <<>> \in BoundedSeq(Kinds, MaxResults[n])
    OBVIOUS
  <2>1. 0 \in 0 .. MaxResults[n] BY NodesAssumption
  <2>2. <<>> \in [1 .. 0 -> Kinds] OBVIOUS
  <2> QED BY <2>1, <2>2 DEF BoundedSeq, SeqOf
<1>3. IsFiniteSet(files) BY FS_EmptySet
<1> QED BY <1>1, <1>2, <1>3 DEF FileInv, ReportTypeOK, NoCommand

(* A node that ends keeps every file as it is, and may add its own.        *)
LEMMA load_testPreserves ==
  ASSUME FileInv, NEW n \in Nodes, load_test(n)
  PROVE  FileInv'
<1> USE DEF FileInv, load_test
<1> PICK own : own = [of |-> {n}, summary |-> Summarize(n)] OBVIOUS
<1>1. start[n] \in Starts BY LaunchesAssumption DEF ReportTypeOK
<1>2. /\ Summarize(n).epoch = start[n].epoch
      /\ Summarize(n).clock_offset = start[n].clock_offset
      /\ Summarize(n).bucket = start[n].bucket
      /\ Summarize(n).paced = start[n].paced
  BY SummaryFields
<1>3. own.of = {n} /\ own.summary = Summarize(n) OBVIOUS
<1>4. EpochTolerance * (Cardinality({n}) - 1) = 0
  <2>1. Cardinality({n}) = 1 BY FS_Singleton
  <2> QED BY <2>1, TolerancesAssumption
<1>5. Origins(own)'
  <2>1. CASE start[n].epoch = None
    BY <1>2, <1>3, <2>1 DEF Origins
  <2>2. CASE start[n].epoch \in Nat
    BY <1>2, <1>3, <1>4, <2>2 DEF Origins
  <2> QED BY <1>1, <2>1, <2>2 DEF Starts
<1>6. Likeness(own)'
  BY <1>2, <1>3 DEF Likeness
<1>7. \A f \in files : (Origins(f) /\ Likeness(f))'
  BY DEF Origins, Likeness
<1>8. IsFiniteSet(files') BY FS_AddElement
<1>9. files' = files \cup {own} OBVIOUS
<1>10. ReportTypeOK'
  <2>1. \A f \in files : n \notin f.of BY DEF ReportTypeOK
  <2>2. Judged(Summarize(n)) \in {0, 1} BY JudgedType
  <2>3. \A f \in files' : f.of \subseteq Nodes \ running' /\ f.of # {}
    BY <1>3, <1>9, <2>1 DEF ReportTypeOK
  <2>4. \A f, g \in files' : f = g \/ f.of \cap g.of = {}
    <3>1. \A f, g \in files : f = g \/ f.of \cap g.of = {} BY DEF ReportTypeOK
    <3>2. \A f \in files : f.of \cap own.of = {} BY <1>3, <2>1
    <3> HIDE DEF FileInv, load_test
    <3> QED BY <1>9, <3>1, <3>2
  <2>5. last'.exit \in {0, 1, 2} /\ last'.of \subseteq Nodes
        /\ last'.ended \in BOOLEAN
    BY <2>2
  <2> HIDE DEF load_test
  <2>6. UNCHANGED <<start, criteria, timed_results>> /\ running' \subseteq Nodes
    BY DEF ReportTypeOK, load_test
  <2> QED BY <2>3, <2>4, <2>5, <2>6 DEF ReportTypeOK
<1> QED BY <1>5, <1>6, <1>7, <1>8, <1>9, <1>10

LEMMA AnswerPreserves ==
  ASSUME FileInv, NEW n \in Nodes, NEW kind \in Kinds, Answer(n, kind)
  PROVE  FileInv'
<1> USE DEF FileInv, Answer
<1>1. timed_results'[n] \in BoundedSeq(Kinds, MaxResults[n])
  <2> DEFINE s == timed_results[n]
  <2>1. s \in UNION {[1 .. m -> Kinds] : m \in 0 .. MaxResults[n]}
    BY DEF ReportTypeOK, BoundedSeq, SeqOf
  <2> PICK m \in 0 .. MaxResults[n] : s \in [1 .. m -> Kinds] BY <2>1
  <2>2. MaxResults[n] \in Nat BY NodesAssumption
  <2>3. Len(s) = m /\ s \in Seq(Kinds) BY <2>2
  <2>4. Append(s, kind) \in [1 .. m + 1 -> Kinds]
    <3>1. Append(s, kind)
            = [i \in 1 .. Len(s) + 1 |-> IF i = Len(s) + 1 THEN kind ELSE s[i]]
      BY <2>3
    <3> QED BY <2>2, <2>3, <3>1
  <2>5. m + 1 \in 0 .. MaxResults[n] BY <2>2, <2>3
  <2>6. timed_results'[n] = Append(s, kind) BY DEF ReportTypeOK
  <2> QED BY <2>4, <2>5, <2>6 DEF BoundedSeq, SeqOf
<1>2. ReportTypeOK' BY <1>1 DEF ReportTypeOK
<1>3. \A f \in files : (Origins(f) /\ Likeness(f))'
  BY DEF Origins, Likeness
<1> QED BY <1>2, <1>3

(* What is merged is apart by one tolerance more than what it is merged of, *)
(* and stands for one run more at least.                                   *)
LEMMA WiderByOne ==
  ASSUME NEW whole \in SUBSET Nodes, NEW part \in SUBSET whole, part # whole,
         NEW e \in Nat, NEW first \in Nat, first <= e + EpochTolerance,
         NEW at \in Nat,
         at <= first + EpochTolerance * (Cardinality(part) - 1)
  PROVE  at <= e + EpochTolerance * (Cardinality(whole) - 1)
<1>1. /\ IsFiniteSet(whole) /\ Cardinality(whole) \in Nat
      /\ Cardinality(part) \in Nat /\ Cardinality(part) < Cardinality(whole)
  BY NodesAssumption, FS_Subset, FS_CardinalityType
<1>2. \A t, i, j \in Nat : i < j => t * (i - 1) + t <= t * (j - 1)
  <2> SUFFICES ASSUME NEW t \in Nat, NEW i \in Nat, NEW j \in Nat, i < j
               PROVE  t * (i - 1) + t <= t * (j - 1)
    OBVIOUS
  <2>1. t * (j - 1) = t * (i - 1) + t + t * (j - i - 1) OBVIOUS
  <2>2. t * (j - i - 1) >= 0 OBVIOUS
  <2>3. t * (i - 1) \in Int /\ t * (j - i - 1) \in Int OBVIOUS
  <2> QED BY <2>1, <2>2, <2>3
<1> DEFINE gap == EpochTolerance * (Cardinality(part) - 1)
           room == EpochTolerance * (Cardinality(whole) - 1)
<1>3. EpochTolerance \in Nat BY TolerancesAssumption
<1>4. gap + EpochTolerance <= room BY <1>1, <1>2, <1>3
<1>5. gap \in Int /\ room \in Int BY <1>1, <1>3
<1> HIDE DEF gap, room
<1>6. at <= e + room
  <2>1. at <= first + gap BY DEF gap
  <2> QED BY <1>3, <1>4, <1>5, <2>1
<1> QED BY <1>6 DEF room

(* The origins and the likeness of a file merged of several.               *)
LEMMA MergedOrigins ==
  ASSUME FileInv, NEW chosen \in SUBSET files, IsFiniteSet(chosen),
         chosen # {}, Cardinality(chosen) # 1, Mergeable(chosen),
         NEW own, own.of = UNION {f.of : f \in chosen},
         own.summary = merge_payloads(chosen)
  PROVE  Origins(own)
<1> DEFINE epochs == {f.summary.epoch : f \in chosen}
           e == own.summary.epoch
<1>1. e = IF epochs \ {None} = {} THEN None ELSE Min(epochs \ {None})
  BY MergedSummary
<1>2. epochs # {} /\ epochs = {s.epoch : s \in {f.summary : f \in chosen}}
  OBVIOUS
<1>3. \A f \in chosen : Origins(f) BY DEF FileInv
<1>4. \/ epochs = {None}
      \/ None \notin epochs /\ \A a, b \in epochs : Abs(a - b) <= EpochTolerance
  BY <1>2 DEF Mergeable, EpochsAgree
<1>5. CASE epochs = {None}
  <2>1. e = None BY <1>1, <1>5
  <2>2. \A f \in chosen : f.summary.epoch = None BY <1>5
  <2>3. \A f \in chosen : \A n \in f.of : start[n].epoch = None
    BY <1>3, <2>2 DEF Origins, None
  <2> QED BY <2>1, <2>3 DEF Origins
<1>6. CASE None \notin epochs
           /\ \A a, b \in epochs : Abs(a - b) <= EpochTolerance
  <2>1. \A f \in chosen : f.summary.epoch # None BY <1>6
  <2>2. \A f \in chosen :
          /\ f.summary.epoch \in Nat
          /\ \A n \in f.of :
               /\ start[n].epoch \in Nat /\ f.summary.epoch <= start[n].epoch
               /\ start[n].epoch <= f.summary.epoch
                                    + EpochTolerance * (Cardinality(f.of) - 1)
    BY <1>3, <2>1 DEF Origins
  <2>3. epochs \subseteq Nat /\ epochs \ {None} = epochs BY <1>6, <2>2
  <2>4. e = Min(epochs) BY <1>1, <1>2, <2>3
  <2>5. PICK x \in epochs : \A y \in epochs : x <= y
    BY <1>2, <2>3, LeastNatural
  <2>6. e \in epochs /\ \A y \in epochs : e <= y
    BY <2>4, <2>5 DEF Min
  <2>7. \A y \in epochs : y <= e + EpochTolerance
    <3> SUFFICES ASSUME NEW y \in epochs PROVE y <= e + EpochTolerance OBVIOUS
    <3>1. Abs(y - e) <= EpochTolerance /\ y \in Nat /\ e \in Nat
      BY <1>6, <2>3, <2>6
    <3> QED BY <3>1, TolerancesAssumption DEF Abs
  <2>8. ASSUME NEW n \in own.of
        PROVE  /\ start[n].epoch \in Nat /\ e <= start[n].epoch
               /\ start[n].epoch <= e + EpochTolerance * (Cardinality(own.of) - 1)
    <3>1. PICK f \in chosen : n \in f.of OBVIOUS
    <3>2. PICK g \in chosen : g # f
      <4>1. chosen # {f} BY FS_Singleton
      <4> QED BY <4>1
    <3>3. f.of \subseteq own.of /\ own.of \subseteq Nodes /\ f.of # own.of
      BY <3>2 DEF FileInv, ReportTypeOK
    <3>4. f.summary.epoch \in epochs OBVIOUS
    <3>5. e \in Nat /\ f.summary.epoch \in Nat /\ e <= f.summary.epoch
          /\ f.summary.epoch <= e + EpochTolerance
      BY <2>3, <2>6, <2>7, <3>4
    <3> HIDE DEF e, epochs
    <3>6. /\ start[n].epoch \in Nat /\ f.summary.epoch <= start[n].epoch
          /\ start[n].epoch <= f.summary.epoch
                               + EpochTolerance * (Cardinality(f.of) - 1)
      BY <2>2, <3>1
    <3>7. start[n].epoch <= e + EpochTolerance * (Cardinality(own.of) - 1)
      BY <3>3, <3>5, <3>6, WiderByOne
    <3> QED BY <3>5, <3>6, <3>7
  <2> QED BY <2>3, <2>6, <2>8 DEF Origins
<1> QED BY <1>4, <1>5, <1>6

LEMMA MergedLikeness ==
  ASSUME FileInv, NEW chosen \in SUBSET files, IsFiniteSet(chosen),
         chosen # {}, Cardinality(chosen) # 1, Mergeable(chosen),
         NEW own, own.of = UNION {f.of : f \in chosen},
         own.summary = merge_payloads(chosen)
  PROVE  Likeness(own)
<1>1. /\ \E f \in chosen : own.summary.bucket = f.summary.bucket
      /\ own.summary.paced = \A f \in chosen : f.summary.paced
  BY MergedSummary
<1>2. \A f, g \in chosen :
        f.summary.paced = g.summary.paced /\ f.summary.bucket = g.summary.bucket
  BY DEF Mergeable
<1>3. \A f \in chosen : Abs(f.summary.clock_offset) <= SkewTolerance
  BY DEF Mergeable
<1> SUFFICES ASSUME NEW n \in own.of
             PROVE  /\ start[n].bucket = own.summary.bucket
                    /\ start[n].paced = own.summary.paced
                    /\ own.of # {n}
                    /\ Abs(start[n].clock_offset) <= SkewTolerance
  BY DEF Likeness
<1>4. PICK f \in chosen : n \in f.of OBVIOUS
<1>5. PICK g \in chosen : g # f
  <2>1. chosen # {f} BY FS_Singleton
  <2> QED BY <2>1
<1>6. own.of # {n}
  <2>1. n \notin g.of /\ g.of # {} BY <1>4, <1>5 DEF FileInv, ReportTypeOK
  <2> QED BY <2>1
<1>7. Likeness(f) BY DEF FileInv
<1>8. start[n].paced \in BOOLEAN
  <2>1. n \in Nodes /\ start \in [Nodes -> Starts]
    BY <1>4, LaunchesAssumption DEF FileInv, ReportTypeOK
  <2> QED BY <2>1 DEF Starts
<1>9. start[n].bucket = own.summary.bucket
  BY <1>1, <1>2, <1>4, <1>7 DEF Likeness
<1>10. start[n].paced = own.summary.paced
  <2>1. start[n].paced = f.summary.paced BY <1>4, <1>7 DEF Likeness
  <2>2. own.summary.paced <=> f.summary.paced BY <1>1, <1>2
  <2>3. own.summary.paced \in BOOLEAN BY <1>1
  <2> QED BY <1>8, <2>1, <2>2, <2>3
<1>11. Abs(start[n].clock_offset) <= SkewTolerance
  BY <1>3, <1>4, <1>7 DEF Likeness
<1> QED BY <1>6, <1>9, <1>10, <1>11

LEMMA merge_load_testPreserves ==
  ASSUME FileInv, NEW chosen \in SUBSET files, merge_load_test(chosen)
  PROVE  FileInv'
<1> USE DEF FileInv
<1> PICK own : own = [of |-> UNION {f.of : f \in chosen},
                      summary |-> merge_payloads(chosen)]
  OBVIOUS
<1>1. /\ own.of = UNION {f.of : f \in chosen}
      /\ own.summary = merge_payloads(chosen)
  OBVIOUS
<1>2. /\ chosen # {} /\ Mergeable(chosen)
      /\ files' = (files \ chosen) \cup {own}
      /\ UNCHANGED <<start, criteria, running, timed_results>>
  BY DEF merge_load_test
<1>3. IsFiniteSet(chosen) BY FS_Subset
<1>4. Origins(own) /\ Likeness(own)
  <2>1. CASE Cardinality(chosen) = 1
    <3>1. PICK f \in chosen : chosen = {f} /\ own.summary = f.summary
      BY <1>1, <1>2, <1>3, <2>1, MergedSummary
    <3>2. own.of = f.of BY <1>1, <3>1
    <3>3. Origins(f) /\ Likeness(f) OBVIOUS
    <3> HIDE DEF FileInv
    <3>4. Origins(own) BY <3>1, <3>2, <3>3, Zenon DEF Origins
    <3>5. Likeness(own) BY <3>1, <3>2, <3>3 DEF Likeness
    <3> QED BY <3>4, <3>5
  <2>2. CASE Cardinality(chosen) # 1
    BY <1>1, <1>2, <1>3, <2>2, MergedOrigins, MergedLikeness
  <2> QED BY <2>1, <2>2
<1>5. \A f \in files' : (Origins(f) /\ Likeness(f))'
  <2>1. \A f \in files' : Origins(f) /\ Likeness(f) BY <1>2, <1>4
  <2> QED BY <1>2, <2>1 DEF Origins, Likeness
<1>6. IsFiniteSet(files')
  <2>1. IsFiniteSet(files \ chosen) BY FS_Subset
  <2> QED BY <1>2, <2>1, FS_AddElement
<1>7. ReportTypeOK'
  <2>1. \A f \in files' : f.of \subseteq Nodes \ running' /\ f.of # {}
    BY <1>1, <1>2 DEF ReportTypeOK
  <2>2. \A f, g \in files' : f = g \/ f.of \cap g.of = {}
    <3>1. \A f \in files \ chosen : f.of \cap own.of = {}
      BY <1>1 DEF ReportTypeOK
    <3>2. \A f, g \in files : f = g \/ f.of \cap g.of = {} BY DEF ReportTypeOK
    <3> QED BY <1>2, <3>1, <3>2
  <2>3. /\ last'.exit \in {0, 1, 2} /\ last'.of \subseteq Nodes
        /\ last'.ended \in BOOLEAN
    <3>1. last' = [exit |-> Judged(merge_payloads(chosen)),
                   of |-> UNION {f.of : f \in chosen}, ended |-> TRUE]
      BY DEF merge_load_test
    <3>2. Judged(merge_payloads(chosen)) \in {0, 1} BY JudgedType
    <3>3. UNION {f.of : f \in chosen} \subseteq Nodes BY DEF ReportTypeOK
    <3> QED BY <3>1, <3>2, <3>3
  <2> QED BY <1>2, <2>1, <2>2, <2>3 DEF ReportTypeOK
<1> QED BY <1>5, <1>6, <1>7

LEMMA InterruptAndRefusePreserve ==
  ASSUME FileInv,
         \/ \E n \in Nodes : Interrupt(n)
         \/ \E chosen \in SUBSET files : Refuse(chosen)
         \/ UNCHANGED reportVars
  PROVE  FileInv'
<1> USE DEF FileInv
<1>1. UNCHANGED <<start, criteria, timed_results, files>>
  BY DEF Interrupt, Refuse, reportVars
<1>2. \A f \in files' : (Origins(f) /\ Likeness(f))'
  BY <1>1 DEF Origins, Likeness
<1>3. running' \subseteq running
  BY DEF Interrupt, Refuse, reportVars, ReportTypeOK
<1>4. /\ last'.exit \in {0, 1, 2} /\ last'.of \subseteq Nodes
      /\ last'.ended \in BOOLEAN
  <2>1. ASSUME NEW n \in Nodes, Interrupt(n) PROVE <1>4!:
    BY <2>1 DEF Interrupt
  <2>2. ASSUME NEW chosen \in SUBSET files, Refuse(chosen) PROVE <1>4!:
    <3>1. UNION {f.of : f \in chosen} \subseteq Nodes BY DEF ReportTypeOK
    <3> QED BY <2>2, <3>1 DEF Refuse
  <2>3. CASE UNCHANGED reportVars BY <2>3 DEF reportVars, ReportTypeOK
  <2> QED BY <2>1, <2>2, <2>3
<1>5. ReportTypeOK' BY <1>1, <1>3, <1>4 DEF ReportTypeOK
<1> QED BY <1>1, <1>2, <1>5

(* The summary in a payload file tells enough of its runs, their epochs,    *)
(* windows, mode and, of one run alone, clock offset, for merge-load-test   *)
(* to refuse what does not belong together: after any merges, of any nodes. *)
THEOREM FileInvariance == ReportSpec => []FileInv
<1>1. FileInv /\ [ReportNext]_reportVars => FileInv'
  BY load_testPreserves, AnswerPreserves, merge_load_testPreserves,
     InterruptAndRefusePreserve DEF ReportNext
<1> QED BY <1>1, ReportInitEstablishes, PTL DEF ReportSpec

LEMMA FileInvIsEnough == FileInv => FilesAreSound
<1> SUFFICES ASSUME FileInv PROVE OriginsStayClose /\ RunsMatch
  BY DEF FileInv, FilesAreSound
<1> USE DEF FileInv
<1>1. OriginsStayClose
  <2> SUFFICES ASSUME NEW f \in files, NEW m \in f.of, NEW n \in f.of
               PROVE  /\ start[m].epoch = None <=> start[n].epoch = None
                      /\ Abs(start[m].epoch - start[n].epoch)
                           <= EpochTolerance * (Cardinality(f.of) - 1)
    BY DEF OriginsStayClose
  <2> DEFINE room == EpochTolerance * (Cardinality(f.of) - 1)
  <2>1. room \in Int /\ room >= 0
    <3>1. IsFiniteSet(f.of) BY NodesAssumption, FS_Subset DEF ReportTypeOK
    <3>2. Cardinality(f.of) \in Nat \ {0}
      BY <3>1, FS_CardinalityType, FS_EmptySet
    <3> QED BY <3>2, TolerancesAssumption
  <2> HIDE DEF room
  <2>2. CASE \A k \in f.of : start[k].epoch = None
    BY <2>1, <2>2 DEF Abs, None, room
  <2>3. CASE f.summary.epoch \in Nat /\ \A k \in f.of :
               /\ start[k].epoch \in Nat /\ f.summary.epoch <= start[k].epoch
               /\ start[k].epoch <= f.summary.epoch + room
    <3>1. Abs(start[m].epoch - start[n].epoch) <= room BY <2>1, <2>3 DEF Abs
    <3> QED BY <2>3, <3>1 DEF None, room
  <2> QED BY <2>2, <2>3 DEF Origins, room
<1>2. RunsMatch
  <2> SUFFICES ASSUME NEW f \in files, NEW m \in f.of, NEW n \in f.of, m # n
               PROVE  /\ Abs(start[m].clock_offset) <= SkewTolerance
                      /\ start[m].bucket = start[n].bucket
                      /\ start[m].paced = start[n].paced
    BY DEF RunsMatch
  <2>1. Likeness(f) /\ f.of # {m} OBVIOUS
  <2> QED BY <2>1 DEF Likeness
<1> QED BY <1>1, <1>2

(* No run is in two payload files, and the runs that merge-load-test put    *)
(* into one started within a tolerance for each of them but one, on clocks  *)
(* in step, in one mode and with windows of one width.                     *)
THEOREM MergedRunsBelongTogether == ReportSpec => []FilesAreSound
<1> QED BY FileInvariance, FileInvIsEnough, PTL

-------------------------------------------------------------------------------
(* The results of the runs of a file are a table; those of the files that   *)
(* are merged are the parts of one.                                         *)

LEMMA RowsOfRun ==
  ASSUME ReportTypeOK, NEW n \in Nodes
  PROVE  /\ timed_results[n] \in [DOMAIN timed_results[n] -> Kinds]
         /\ IsFiniteSet(DOMAIN timed_results[n])
<1>1. timed_results[n] \in UNION {[1 .. m -> Kinds] : m \in 0 .. MaxResults[n]}
  BY DEF ReportTypeOK, BoundedSeq, SeqOf
<1>2. PICK m \in 0 .. MaxResults[n] : timed_results[n] \in [1 .. m -> Kinds]
  BY <1>1
<1>3. MaxResults[n] \in Nat BY NodesAssumption
<1>4. IsFiniteSet(1 .. m) BY <1>3, FS_Interval
<1> QED BY <1>2, <1>4

RowsOf(n) == {n} \X DOMAIN timed_results[n]

LEMMA ResultsTable ==
  ASSUME ReportTypeOK, NEW of \in SUBSET Nodes
  PROVE  /\ IsTable(Results(of))
         /\ DOMAIN Results(of) = UNION {RowsOf(n) : n \in of}
         /\ \A row \in DOMAIN Results(of) :
              Results(of)[row] = timed_results[row[1]][row[2]]
<1> DEFINE rows == [n \in of |-> RowsOf(n)]
           S == {RowsOf(n) : n \in of}
<1>1. IsFiniteSet(of) BY NodesAssumption, FS_Subset
<1>2. rows \in Surjection(of, S)
  <2>1. rows \in [of -> S] OBVIOUS
  <2>2. \A s \in S : \E n \in of : rows[n] = s OBVIOUS
  <2> HIDE DEF rows, S
  <2> QED BY <2>1, <2>2 DEF Surjection
<1>3. IsFiniteSet(S)
  <2> HIDE DEF rows, S
  <2> QED BY <1>1, <1>2, FS_Surjection
<1>4. \A s \in S : IsFiniteSet(s)
  <2> SUFFICES ASSUME NEW n \in of PROVE IsFiniteSet(RowsOf(n)) OBVIOUS
  <2>1. IsFiniteSet({n}) BY FS_Singleton
  <2>2. IsFiniteSet(DOMAIN timed_results[n]) BY RowsOfRun
  <2> QED BY <2>1, <2>2, FS_Product DEF RowsOf
<1>5. IsFiniteSet(UNION S)
  <2> HIDE DEF S
  <2> QED BY <1>3, <1>4, FS_UNION
<1>6. Results(of) = [row \in UNION S |-> timed_results[row[1]][row[2]]]
  BY DEF Results, RowsOf
<1>7. ASSUME NEW row \in UNION S PROVE timed_results[row[1]][row[2]] \in Kinds
  <2>1. PICK n \in of : row \in RowsOf(n) OBVIOUS
  <2>2. row[1] = n /\ row[2] \in DOMAIN timed_results[n] BY <2>1 DEF RowsOf
  <2>3. timed_results[n] \in [DOMAIN timed_results[n] -> Kinds] BY RowsOfRun
  <2> QED BY <2>2, <2>3
<1> QED BY <1>5, <1>6, <1>7 DEF IsTable

(* The rows of runs that have nothing in common.                           *)
LEMMA ResultsParted ==
  ASSUME ReportTypeOK, NEW chosen \in SUBSET files, IsFiniteSet(chosen)
  PROVE  Parted(chosen, [f \in chosen |-> Results(f.of)],
                Results(UNION {f.of : f \in chosen}))
<1> DEFINE part == [f \in chosen |-> Results(f.of)]
           of == UNION {f.of : f \in chosen}
           tab == Results(of)
<1>1. of \in SUBSET Nodes /\ \A f \in chosen : f.of \in SUBSET Nodes
  BY DEF ReportTypeOK
<1>2. /\ IsTable(tab) /\ DOMAIN tab = UNION {RowsOf(n) : n \in of}
      /\ \A row \in DOMAIN tab : tab[row] = timed_results[row[1]][row[2]]
  <2> HIDE DEF of
  <2> QED BY <1>1, ResultsTable
<1>3. \A f \in chosen :
        /\ IsTable(part[f]) /\ DOMAIN part[f] = UNION {RowsOf(n) : n \in f.of}
        /\ \A row \in DOMAIN part[f] : part[f][row] = timed_results[row[1]][row[2]]
  BY <1>1, ResultsTable
<1> HIDE DEF tab, part
<1>4. ASSUME NEW f \in chosen, NEW row \in DOMAIN part[f]
      PROVE  row \in DOMAIN tab /\ part[f][row] = tab[row]
  <2>1. PICK n \in f.of : row \in RowsOf(n) BY <1>3
  <2>2. n \in of OBVIOUS
  <2>3. row \in DOMAIN tab BY <1>2, <2>1, <2>2
  <2> QED BY <1>2, <1>3, <2>3
<1>5. ASSUME NEW row \in DOMAIN tab PROVE \E f \in chosen : row \in DOMAIN part[f]
  <2>1. PICK n \in of : row \in RowsOf(n) BY <1>2
  <2>2. PICK f \in chosen : n \in f.of OBVIOUS
  <2> QED BY <1>3, <2>1, <2>2
<1>6. ASSUME NEW f \in chosen, NEW g \in chosen, f # g
      PROVE  DOMAIN part[f] \cap DOMAIN part[g] = {}
  <2> SUFFICES ASSUME NEW row \in DOMAIN part[f], row \in DOMAIN part[g] PROVE FALSE
    OBVIOUS
  <2>1. PICK m \in f.of : row \in RowsOf(m) BY <1>3
  <2>2. PICK n \in g.of : row \in RowsOf(n) BY <1>3
  <2>3. m = n BY <2>1, <2>2 DEF RowsOf
  <2>4. f.of \cap g.of = {} BY <1>6 DEF ReportTypeOK
  <2> QED BY <2>3, <2>4
<1>7. Parted(chosen, part, tab) BY <1>2, <1>3, <1>4, <1>5, <1>6 DEF Parted
<1> QED BY <1>7 DEF part, tab

LEMMA ToldAlone ==
  ASSUME ReportTypeOK, NEW n \in Nodes
  PROVE  Tells(Summarize(n), Results({n}))
<1> PICK tab : tab = Results({n}) OBVIOUS
<1> PICK s : s = Summarize(n) OBVIOUS
<1>1. {n} \in SUBSET Nodes OBVIOUS
<1>2. IsTable(tab) BY <1>1, ResultsTable
<1>3. /\ s.stats = TargetStatistics(tab)
      /\ s.errors = Number(tab, LAMBDA r : ~ r.completed)
      /\ s.intervals = Intervals(tab, s.bucket)
  BY DEF Summarize
<1>4. Tells(s, tab) BY <1>2, <1>3, TellsAlone
<1> QED BY <1>4

LEMMA ToldTogether ==
  ASSUME FileInv, NEW chosen \in SUBSET files, chosen # {}, Mergeable(chosen),
         \A f \in chosen : Tells(f.summary, Results(f.of))
  PROVE  Tells(merge_payloads(chosen), Results(UNION {f.of : f \in chosen}))
<1>1. IsFiniteSet(chosen) BY FS_Subset DEF FileInv
<1>2. CASE Cardinality(chosen) = 1
  <2>1. PICK f \in chosen : chosen = {f} /\ merge_payloads(chosen) = f.summary
    BY <1>1, <1>2, MergedSummary
  <2>2. UNION {g.of : g \in chosen} = f.of BY <2>1
  <2> QED BY <2>1, <2>2
<1>3. CASE Cardinality(chosen) # 1
  <2> PICK part : part = [f \in chosen |-> Results(f.of)] OBVIOUS
  <2> PICK tab : tab = Results(UNION {f.of : f \in chosen}) OBVIOUS
  <2> PICK summaries : summaries = [f \in chosen |-> f.summary] OBVIOUS
  <2>1. Parted(chosen, part, tab) BY <1>1, ResultsParted DEF FileInv
  <2>2. \A f \in chosen : Tells(summaries[f], part[f]) OBVIOUS
  <2>3. \A f, g \in chosen : summaries[f].bucket = summaries[g].bucket
    BY <1>3 DEF Mergeable
  <2>4. DOMAIN summaries = chosen OBVIOUS
  <2>5. Tells(MergeSummaries(summaries), tab)
    BY <1>3, <2>1, <2>2, <2>3, <2>4, TellsTogether
  <2>6. merge_payloads(chosen) = MergeSummaries(summaries) BY DEF merge_payloads
  <2> QED BY <2>5, <2>6
<1> QED BY <1>2, <1>3

(* Every payload file tells exactly what came of its runs, counted, in     *)
(* rates and in windows.                                                   *)
ExactInv == FileInv /\ \A f \in files : Tells(f.summary, Results(f.of))

LEMMA ResultsStay ==
  ASSUME NEW of, \A n \in of : timed_results'[n] = timed_results[n]
  PROVE  Results(of)' = Results(of)
<1>1. UNION {{n} \X DOMAIN timed_results'[n] : n \in of}
        = UNION {{n} \X DOMAIN timed_results[n] : n \in of}
  OBVIOUS
<1>2. ASSUME NEW row \in UNION {{n} \X DOMAIN timed_results[n] : n \in of}
      PROVE  timed_results'[row[1]][row[2]] = timed_results[row[1]][row[2]]
  <2>1. row[1] \in of OBVIOUS
  <2> QED BY <2>1
<1> QED BY <1>1, <1>2 DEF Results

LEMMA StepKeepsExact ==
  ASSUME ExactInv, FileInv', [ReportNext]_reportVars
  PROVE  ExactInv'
<1>1. FileInv /\ ReportTypeOK BY DEF ExactInv, FileInv
<1>2. ASSUME NEW of, NEW s, of \subseteq Nodes, UNCHANGED timed_results,
             Tells(s, Results(of)),
             \A f \in files' : f \in files \/ f = [of |-> of, summary |-> s]
      PROVE  ExactInv'
  <2> SUFFICES ASSUME NEW f \in files' PROVE Tells(f.summary, Results(f.of)')
    BY DEF ExactInv
  <2>1. \A m : timed_results'[m] = timed_results[m] BY <1>2
  <2>2. Results(f.of)' = Results(f.of) BY <2>1, ResultsStay
  <2>3. CASE f \in files BY <2>2, <2>3 DEF ExactInv
  <2>4. CASE f = [of |-> of, summary |-> s]
    <3>1. f.of = of /\ f.summary = s BY <2>4
    <3> QED BY <1>2, <2>2, <3>1
  <2> QED BY <1>2, <2>3, <2>4
<1>3. ASSUME NEW n \in Nodes, load_test(n) PROVE ExactInv'
  <2>1. /\ UNCHANGED timed_results
        /\ files' = files \cup {[of |-> {n}, summary |-> Summarize(n)]}
    BY <1>3 DEF load_test
  <2>2. Tells(Summarize(n), Results({n})) BY <1>1, ToldAlone
  <2> QED BY <1>2, <2>1, <2>2
<1>4. ASSUME NEW chosen \in SUBSET files, merge_load_test(chosen) PROVE ExactInv'
  <2> PICK of : of = UNION {f.of : f \in chosen} OBVIOUS
  <2>1. /\ UNCHANGED timed_results /\ chosen # {} /\ Mergeable(chosen)
        /\ files' = (files \ chosen) \cup {[of |-> of, summary |-> merge_payloads(chosen)]}
    BY <1>4 DEF merge_load_test
  <2>2. \A f \in chosen : Tells(f.summary, Results(f.of)) BY DEF ExactInv
  <2>3. Tells(merge_payloads(chosen), Results(of))
    BY <1>1, <2>1, <2>2, ToldTogether
  <2>4. of \subseteq Nodes BY <1>1 DEF ReportTypeOK
  <2> QED BY <1>2, <2>1, <2>3, <2>4
<1>5. ASSUME UNCHANGED files,
             \A f \in files : \A n \in f.of : timed_results'[n] = timed_results[n]
      PROVE  ExactInv'
  <2>1. \A f \in files : Results(f.of)' = Results(f.of) BY <1>5, ResultsStay
  <2> QED BY <1>5, <2>1 DEF ExactInv
<1>6. ASSUME NEW n \in Nodes, NEW kind \in Kinds, Answer(n, kind) PROVE ExactInv'
  <2>1. /\ UNCHANGED files /\ n \in running
        /\ \A m \in Nodes \ {n} : timed_results'[m] = timed_results[m]
    BY <1>1, <1>6 DEF Answer, ReportTypeOK
  <2>2. \A f \in files : \A m \in f.of : timed_results'[m] = timed_results[m]
    BY <1>1, <2>1 DEF ReportTypeOK
  <2> QED BY <1>5, <2>1, <2>2
<1>7. CASE \/ \E n \in Nodes : Interrupt(n)
           \/ \E chosen \in SUBSET files : Refuse(chosen)
           \/ UNCHANGED reportVars
  <2>1. UNCHANGED <<files, timed_results>>
    BY <1>7 DEF Interrupt, Refuse, reportVars
  <2> QED BY <1>5, <2>1
<1> QED BY <1>3, <1>4, <1>6, <1>7 DEF ReportNext

(* What a payload file tells is what came of its runs, in every window and  *)
(* altogether: so it is when a run ends, of the merged statistics of files  *)
(* that tell it, and it stays so, for their runs are over.                  *)
THEOREM ExactInvariance == ReportSpec => []ExactInv
<1>1. ReportInit /\ FileInv => ExactInv BY DEF ReportInit, ExactInv
<1>2. ExactInv /\ FileInv' /\ [ReportNext]_reportVars => ExactInv'
  BY StepKeepsExact
<1> QED BY <1>1, <1>2, FileInvariance, PTL DEF ReportSpec

LEMMA ExactInvIsEnough == ExactInv => MergeIsExact
<1> SUFFICES ASSUME ExactInv, NEW f \in files
             PROVE  LET rows == Results(f.of)
                        s == f.summary
                        In(w) == RestrictValues(rows, LAMBDA r : Window(r, s.bucket) = w)
                    IN /\ Describes(s.stats, rows)
                       /\ s.errors = Number(rows, LAMBDA r : ~ r.completed)
                       /\ DOMAIN s.intervals = {Window(rows[i], s.bucket) : i \in DOMAIN rows}
                       /\ \A w \in DOMAIN s.intervals : Describes(s.intervals[w], In(w))
  BY DEF MergeIsExact
<1> DEFINE tab == Results(f.of)
           s == f.summary
<1>1. IsTable(tab) BY ResultsTable DEF ExactInv, FileInv, ReportTypeOK
<1>2. Tells(s, tab) BY DEF ExactInv
<1>3. Describes(s.stats, tab) BY <1>1, <1>2, DescribedDescribes DEF Tells
<1>4. s.errors = Number(tab, LAMBDA r : ~ r.completed)
  <2>1. At(tab, Kinds \ Completed) = {i \in DOMAIN tab : ~ tab[i].completed}
    BY <1>1, TableFacts DEF At, Completed
  <2> QED BY <1>2, <2>1 DEF Tells, Count, Number
<1>5. ASSUME NEW w \in DOMAIN s.intervals
      PROVE  Describes(s.intervals[w],
                       RestrictValues(tab, LAMBDA r : Window(r, s.bucket) = w))
  <2>1. IsWindow(InWindow(tab, s.bucket, w), tab, s.bucket, w)
    BY <1>1, WindowTable
  <2>2. Described(s.intervals[w], InWindow(tab, s.bucket, w)) BY <1>2 DEF Tells
  <2>3. Describes(s.intervals[w], InWindow(tab, s.bucket, w))
    BY <2>1, <2>2, DescribedDescribes DEF IsWindow
  <2> QED BY <2>3 DEF InWindow
<1> QED BY <1>2, <1>3, <1>4, <1>5 DEF Tells, WindowsIn

(* Counts, rates, means, the certificate that ends first and the extremes   *)
(* of the latencies are exact, of any runs, merged in any order and in any  *)
(* number of steps, and so they are in every window.                       *)
THEOREM MergesAreExact == ReportSpec => []MergeIsExact
<1> QED BY ExactInvariance, ExactInvIsEnough, PTL

-------------------------------------------------------------------------------
(* What a histogram tells of a rank. *)

(* So many are seen up to a bucket.                                        *)
LEMMA SeenIs ==
  ASSUME NEW tab, IsTable(tab), NEW h \in Histograms, Sorted(h, tab),
         NEW b \in Buckets
  PROVE  Seen(h, b) = Count(tab, UpToBucket(b))
<1>0. Top \in Int BY LayoutAssumption DEF Top
<1> PICK S : S = At(tab, UpToBucket(b)) OBVIOUS
<1> PICK ones : ones = [i \in S |-> 1] OBVIOUS
<1> PICK C : C = 0 .. b OBVIOUS
<1> PICK part : part = [c \in C |-> At(tab, Among(c))] OBVIOUS
<1> PICK counts \in [Buckets -> Nat] : counts = h.counts BY DEF Histograms
<1>1. IsFiniteSet(S) /\ \A i \in S : ones[i] \in Int /\ ones[i] = 1 BY TableFacts
<1>2. IsFiniteSet(C) /\ C \subseteq Buckets
  <2>1. 0 \in Int /\ b \in Int /\ b <= Top BY <1>0 DEF Buckets
  <2> QED BY <1>0, <2>1, FS_Interval DEF Buckets
<1>3. Divides(C, part, S)
  <2>1. \A c \in C : c <= b /\ c \in Nat BY <1>0, <1>2 DEF Buckets
  <2>2. \A c \in C : part[c] = At(tab, Among(c)) OBVIOUS
  <2>3. \A k \in Answers : Index(k.total_ms) \in Buckets BY IndexIs, ValuesOf
  <2>4. ASSUME NEW i \in S PROVE \E c \in C : i \in part[c]
    <3>1. i \in DOMAIN tab /\ tab[i] \in Answers /\ Index(tab[i].total_ms) <= b
      BY DEF At, UpToBucket
    <3>2. Index(tab[i].total_ms) \in C BY <1>0, <2>3, <3>1 DEF Buckets
    <3>3. i \in At(tab, Among(Index(tab[i].total_ms))) BY <3>1 DEF At, Among
    <3> QED BY <2>2, <3>2, <3>3
  <2>5. \A c \in C : part[c] \subseteq S BY <2>1, <2>2 DEF At, Among, UpToBucket
  <2>6. \A c, d \in C : c # d => part[c] \cap part[d] = {} BY <2>2 DEF At, Among
  <2> QED BY <2>4, <2>5, <2>6 DEF Divides
<1>4. ASSUME NEW c \in C PROVE counts[c] = SumFunctionOnSet(ones, part[c])
  <2> PICK B : B = part[c] OBVIOUS
  <2>1. B = At(tab, Among(c)) /\ B \subseteq S BY <1>3 DEF Divides
  <2>2. IsFiniteSet(B) /\ \A i \in B : ones[i] = 1 BY <1>1, <2>1, FS_Subset
  <2>3. SumFunctionOnSet(ones, B) = Cardinality(B) BY <2>2, SumOfOnes
  <2>4. InBucket[c][h] = Count(tab, Among(c)) BY <1>2 DEF Sorted
  <2>5. InBucket[c][h] = counts[c] BY <1>2 DEF InBucket
  <2> QED BY <2>1, <2>3, <2>4, <2>5 DEF Count
<1>5. SumFunctionOnSet(ones, S) = SumFunctionOnSet(counts, C)
  BY <1>1, <1>2, <1>3, <1>4, SumOfParts
<1>6. SumFunctionOnSet(ones, S) = Cardinality(S) BY <1>1, SumOfOnes
<1> QED BY <1>5, <1>6 DEF Seen, Count

(* The sample x is at the rank.                                            *)
Within(v) == {k \in Answers : k.total_ms <= v}

Reached(tab, percent, v) ==
  100 * Count(tab, Within(v)) >= percent * Count(tab, Answers)

IsAtRank(tab, percent, x) ==
  /\ x \in LatencySet(tab) /\ Reached(tab, percent, x)
  /\ \A y \in LatencySet(tab) : Reached(tab, percent, y) => x <= y

LEMMA LatencyFacts ==
  ASSUME NEW tab, IsTable(tab)
  PROVE  /\ LatencySet(tab) \subseteq Nat
         /\ \A i \in DOMAIN tab : tab[i] \in Answers => tab[i].total_ms \in LatencySet(tab)
         /\ \A P, Q : P \subseteq Q => Count(tab, P) <= Count(tab, Q)
<1>1. LatencySet(tab) \subseteq Nat BY ValuesOf DEF LatencySet, At
<1>2. \A i \in DOMAIN tab : tab[i] \in Answers => tab[i].total_ms \in LatencySet(tab)
  BY DEF LatencySet, At
<1>3. ASSUME NEW P, NEW Q, P \subseteq Q PROVE Count(tab, P) <= Count(tab, Q)
  <2>1. At(tab, P) \subseteq At(tab, Q) /\ IsFiniteSet(At(tab, Q))
    BY <1>3, TableFacts DEF At
  <2> QED BY <2>1, FS_Subset DEF Count
<1> QED BY <1>1, <1>2, <1>3

LEMMA AtRankIs ==
  ASSUME NEW tab, IsTable(tab), NEW percent \in 1 .. 100,
         Count(tab, Answers) > 0, NEW worst, IsGreatest(worst, LatencySet(tab))
  PROVE  IsAtRank(tab, percent, AtRank(tab, percent))
<1> PICK X : X = {v \in LatencySet(tab) : Reached(tab, percent, v)} OBVIOUS
<1>1. \A i \in DOMAIN tab : tab[i] \in Kinds BY TableFacts
<1>2. AtRank(tab, percent) = Min(X)
  <2>1. {i \in DOMAIN tab : tab[i].responded} = At(tab, Answers)
    BY <1>1 DEF At, Answers
  <2>2. \A v : {i \in At(tab, Answers) : tab[i].total_ms <= v} = At(tab, Within(v))
    BY DEF At, Within
  <2> QED BY <2>1, <2>2 DEF AtRank, Reached, LatencySet, Count
<1>3. LatencySet(tab) # {}
  <2>1. PICK i : i \in At(tab, Answers) BY TableFacts
  <2> QED BY <2>1 DEF LatencySet
<1>4. worst \in X
  <2>1. worst \in LatencySet(tab) /\ \A y \in LatencySet(tab) : y <= worst
    BY <1>3 DEF IsGreatest
  <2>2. At(tab, Answers) \subseteq At(tab, Within(worst))
    BY <2>1, LatencyFacts DEF At, Within
  <2>3. Count(tab, Answers) <= Count(tab, Within(worst))
    BY <2>2, TableFacts, FS_Subset DEF Count
  <2>4. Count(tab, Answers) \in Nat /\ Count(tab, Within(worst)) \in Nat BY TableFacts
  <2>5. percent * Count(tab, Answers) <= 100 * Count(tab, Answers) BY <2>4
  <2>6. percent * Count(tab, Answers) \in Int BY <2>4
  <2>7. Reached(tab, percent, worst) BY <2>3, <2>4, <2>5, <2>6 DEF Reached
  <2> QED BY <2>1, <2>7
<1>5. X \subseteq Nat BY LatencyFacts
<1>6. PICK x \in X : \A y \in X : x <= y BY <1>4, <1>5, LeastNatural
<1>7. Min(X) \in X /\ \A y \in X : Min(X) <= y BY <1>6 DEF Min
<1> QED BY <1>2, <1>7 DEF IsAtRank

(* The bucket at which the rank is reached is that of the sample.          *)
LEMMA RankedIs ==
  ASSUME NEW tab, IsTable(tab), NEW h \in Histograms, Sorted(h, tab),
         h.count = Count(tab, Answers), Count(tab, Answers) > 0,
         IsGreatest(h.max_ms, LatencySet(tab)),
         NEW percent \in 1 .. 100, NEW x, IsAtRank(tab, percent, x)
  PROVE  Ranked(h, percent) = Index(x)
<1>0. Top \in Int BY LayoutAssumption DEF Top
<1> PICK n \in Nat : n = Count(tab, Answers) BY TableFacts
<1> PICK goal \in Nat : goal = percent * n OBVIOUS
<1>1. goal > 0 /\ n = h.count OBVIOUS
<1> PICK at : at = Index(x) OBVIOUS
<1>2. x \in Nat /\ x \in LatencySet(tab) BY LatencyFacts DEF IsAtRank
<1>3. at \in Buckets /\ at \in Nat /\ at <= Top BY <1>0, <1>2, IndexIs DEF Buckets
<1>4. \A b \in Buckets : Seen(h, b) \in Nat /\ Seen(h, b) = Count(tab, UpToBucket(b))
  BY SeenIs, TableFacts
<1>5. 100 * Seen(h, at) >= goal
  <2>1. Within(x) \subseteq UpToBucket(at)
    <3> SUFFICES ASSUME NEW k \in Answers, k.total_ms <= x
                 PROVE  Index(k.total_ms) <= at
      BY DEF Within, UpToBucket
    <3> QED BY <1>2, ValuesOf, IndexRises
  <2>2. Count(tab, Within(x)) <= Count(tab, UpToBucket(at)) BY <2>1, LatencyFacts
  <2>3. Count(tab, Within(x)) \in Nat BY TableFacts
  <2>4. 100 * Count(tab, Within(x)) >= goal BY DEF IsAtRank, Reached
  <2> QED BY <1>3, <1>4, <2>2, <2>3, <2>4
<1>6. ASSUME NEW c \in Buckets, c < at PROVE 100 * Seen(h, c) < goal
  <2> SUFFICES ASSUME 100 * Seen(h, c) >= goal PROVE FALSE BY <1>4
  <2> PICK B : B = At(tab, UpToBucket(c)) OBVIOUS
  <2> PICK V : V = {tab[i].total_ms : i \in B} OBVIOUS
  <2>1. B # {}
    <3>1. Count(tab, UpToBucket(c)) # 0 BY <1>1, <1>4
    <3> QED BY <3>1, TableFacts
  <2>2. \A i \in B : /\ i \in DOMAIN tab /\ tab[i] \in Answers
                     /\ Index(tab[i].total_ms) <= c
    BY DEF At, UpToBucket
  <2>3. V \subseteq LatencySet(tab) /\ V # {} BY <2>1, <2>2, LatencyFacts
  <2>4. h.max_ms \in Nat /\ V \subseteq 0 .. h.max_ms
    <3>1. h.max_ms \in LatencySet(tab) /\ \A y \in LatencySet(tab) : y <= h.max_ms
      BY <1>2 DEF IsGreatest
    <3> QED BY <2>3, <3>1, LatencyFacts
  <2>5. PICK y \in V : \A v \in V : v <= y BY <2>3, <2>4, MaxOfBounded
  <2>6. y \in LatencySet(tab) /\ y \in Nat BY <2>3, LatencyFacts
  <2>7. Index(y) <= c BY <2>2
  <2>8. Count(tab, UpToBucket(c)) <= Count(tab, Within(y))
    <3>1. B \subseteq At(tab, Within(y)) BY <2>2, <2>5 DEF At, Within
    <3> QED BY <3>1, TableFacts, FS_Subset DEF Count
  <2>9. Count(tab, Within(y)) \in Nat BY TableFacts
  <2>10. Reached(tab, percent, y) BY <1>4, <2>8, <2>9 DEF Reached
  <2>11. x <= y BY <2>6, <2>10 DEF IsAtRank
  <2>12. Index(x) <= Index(y) BY <1>2, <2>6, <2>11, IndexRises
  <2>13. Index(y) \in Int /\ c \in Int BY <1>0, <2>6, IndexIs DEF Buckets
  <2> QED BY <1>3, <1>6, <2>7, <2>12, <2>13
<1>7. h.counts[at] > 0
  <2>1. PICK i \in At(tab, Answers) : x = tab[i].total_ms BY <1>2 DEF LatencySet
  <2>2. i \in At(tab, Among(at)) BY <2>1 DEF At, Among
  <2>3. Count(tab, Among(at)) # 0 /\ Count(tab, Among(at)) \in Nat
    BY <2>2, TableFacts
  <2>4. InBucket[at][h] = Count(tab, Among(at)) BY <1>3 DEF Sorted
  <2>5. InBucket[at][h] = h.counts[at] BY <1>3 DEF InBucket
  <2> QED BY <2>3, <2>4, <2>5
<1> DEFINE Is(b) == /\ h.counts[b] > 0
                    /\ 100 * Seen(h, b) >= percent * h.count
                    /\ \A c \in 0 .. b - 1 : 100 * Seen(h, c) < percent * h.count
<1>8. Is(at)
  <2>1. \A c \in 0 .. at - 1 : c \in Buckets /\ c < at BY <1>0, <1>3 DEF Buckets
  <2> QED BY <1>1, <1>5, <1>6, <1>7, <2>1
<1>9. ASSUME NEW b \in Buckets, Is(b) PROVE b = at
  <2>1. b \in Int /\ b >= 0 BY <1>0 DEF Buckets
  <2>2. ~ (b < at) BY <1>1, <1>4, <1>6, <1>9
  <2>3. ~ (at < b)
    <3> SUFFICES ASSUME at < b PROVE FALSE OBVIOUS
    <3>1. at \in 0 .. b - 1 BY <1>3, <2>1
    <3> QED BY <1>1, <1>3, <1>4, <1>5, <1>9, <3>1
  <2> QED BY <1>3, <2>1, <2>2, <2>3
<1>10. Ranked(h, percent) = CHOOSE b \in Buckets : Is(b) BY DEF Ranked
<1> HIDE DEF Is
<1>11. Ranked(h, percent) = at BY <1>3, <1>8, <1>9, <1>10
<1> QED BY <1>11

(* No further from the sample than the bucket is wide.                     *)
IsClose(value, x) ==
  Abs(value - x) <= IF x < LowestMs THEN LowestMs + Width(0) ELSE Width(Index(x))

LEMMA BoundsAre ==
  ASSUME NEW b \in Buckets
  PROVE  Lower(b) \in Nat /\ Width(b) \in Nat /\ Lower(0) = LowestMs
<1>0. /\ SubBuckets \in Nat \ {0} /\ MaxExponent \in Nat \ {0} /\ LowestMs \in Nat
  BY LayoutAssumption
<1>1. Base \in [0 .. MaxExponent -> Nat] /\ Base[0] = LowestMs BY BaseIs
<1> PICK e \in Nat : e = b \div SubBuckets BY <1>0 DEF Buckets
<1> PICK s \in Nat : s = b % SubBuckets
  <2>1. b \in Nat BY <1>0 DEF Buckets, Top
  <2>2. b % SubBuckets \in 0 .. SubBuckets - 1 BY <1>0, <2>1, RemainderFact
  <2> QED BY <1>0, <2>2
<1>2. e \in 0 .. MaxExponent
  <2>1. SubBuckets * e <= b BY <1>0, QuotientIs DEF Buckets
  <2>2. ASSUME MaxExponent <= e PROVE FALSE
    <3>1. SubBuckets * MaxExponent <= SubBuckets * e BY <1>0, <2>2
    <3>2. /\ SubBuckets * MaxExponent = MaxExponent * SubBuckets
          /\ MaxExponent * SubBuckets \in Nat /\ SubBuckets * e \in Nat
      BY <1>0
    <3> QED BY <2>1, <3>1, <3>2 DEF Buckets, Top
  <2> QED BY <1>0, <2>2
<1> PICK base \in Nat : base = Base[e] BY <1>1, <1>2
<1>3. base * (SubBuckets + s) \in Nat BY <1>0
<1>4. Lower(b) \in Nat /\ Width(b) \in Nat BY <1>0, <1>3 DEF Lower, Width
<1>5. Lower(0) = LowestMs
  <2> PICK z : z = 0 OBVIOUS
  <2>1. z \in 0 .. MaxExponent - 1 /\ z \in 0 .. SubBuckets - 1 BY <1>0
  <2>2. z * SubBuckets + z = 0 BY <1>0
  <2>3. Lower(0) = Base[0] + Slice(0) * 0 BY <2>1, <2>2, BucketFacts
  <2>4. Slice(0) \in Nat BY <1>0, OctaveFacts
  <2> QED BY <1>0, <1>1, <2>3, <2>4
<1> QED BY <1>4, <1>5

LEMMA QuantileIsClose ==
  ASSUME NEW h \in Histograms, h.count > 0, NEW percent,
         NEW x \in Nat, x <= Range_ms, Ranked(h, percent) = Index(x),
         h.min_ms \in Nat, h.max_ms \in Nat, h.min_ms <= x, x <= h.max_ms
  PROVE  IsClose(Quantile(h, percent), x)
<1>0. LowestMs \in Nat BY LayoutAssumption
<1> PICK b \in Buckets : b = Index(x) BY IndexIs
<1> PICK width \in Nat, lower \in Nat : width = Width(b) /\ lower = Lower(b)
  BY BoundsAre
<1> PICK half \in Nat : half = width \div 2 OBVIOUS
<1>1. 2 * half <= width OBVIOUS
<1> PICK value : value = Quantile(h, percent) OBVIOUS
<1>2. LET middle == Larger(lower + half, h.min_ms)
      IN value = IF middle > h.max_ms THEN h.max_ms ELSE middle
  BY DEF Quantile
<1>3. CASE x < LowestMs
  <2>1. b = 0 BY <1>3, IndexIs
  <2>2. lower = LowestMs BY <2>1, BoundsAre
  <2>3. value - x <= LowestMs + width /\ x - value <= LowestMs + width /\ value \in Int
    BY <1>0, <1>1, <1>2, <1>3, <2>2 DEF Larger
  <2> QED BY <1>0, <1>3, <2>1, <2>3 DEF IsClose, Abs
<1>4. CASE LowestMs <= x
  <2>1. lower <= x /\ x <= lower + width BY <1>4, IndexIs
  <2>2. value - x <= width /\ x - value <= width /\ value \in Int
    BY <1>1, <1>2, <2>1 DEF Larger
  <2> QED BY <1>0, <1>4, <2>2 DEF IsClose, Abs
<1> QED BY <1>0, <1>3, <1>4

LEMMA QuantilesOf ==
  ASSUME NEW tab, IsTable(tab), NEW h \in Histograms, Sorted(h, tab),
         h.count = Count(tab, Answers), h.count > 0, h.overflow_count = 0,
         IsLeast(h.min_ms, LatencySet(tab)), IsGreatest(h.max_ms, LatencySet(tab)),
         NEW percent \in 1 .. 100
  PROVE  IsClose(Quantile(h, percent), AtRank(tab, percent))
<1> PICK x : x = AtRank(tab, percent) OBVIOUS
<1>1. IsAtRank(tab, percent, x) BY AtRankIs
<1>2. x \in LatencySet(tab) /\ x \in Nat /\ LatencySet(tab) \subseteq Nat
  BY <1>1, LatencyFacts DEF IsAtRank
<1>3. Ranked(h, percent) = Index(x) BY <1>1, RankedIs
<1>4. /\ h.min_ms \in LatencySet(tab) /\ h.min_ms <= x
      /\ h.max_ms \in LatencySet(tab) /\ x <= h.max_ms
  BY <1>2 DEF IsLeast, IsGreatest
<1>5. x <= Range_ms
  <2>1. PICK i \in At(tab, Answers) : x = tab[i].total_ms BY <1>2 DEF LatencySet
  <2>2. OutOfRange[h] = 0 BY DEF OutOfRange
  <2>3. i \notin At(tab, Beyond) BY <2>2, TableFacts DEF Sorted
  <2>4. ~ (x > Range_ms) BY <2>1, <2>3 DEF At, Beyond
  <2>5. Range_ms \in Nat BY BaseIs, LayoutAssumption DEF Range_ms
  <2> QED BY <1>2, <2>4, <2>5
<1> QED BY <1>2, <1>3, <1>4, <1>5, QuantileIsClose

LEMMA ExactInvIsClose == ExactInv => QuantilesAreClose
<1> SUFFICES ASSUME ExactInv, NEW f \in files, NEW percent \in {50, 95},
                    f.summary.stats.histogram.count > 0,
                    f.summary.stats.histogram.overflow_count = 0
             PROVE  IsClose(Quantile(f.summary.stats.histogram, percent),
                            AtRank(Results(f.of), percent))
  BY DEF QuantilesAreClose, IsClose
<1> PICK tab : tab = Results(f.of) OBVIOUS
<1> PICK h : h = f.summary.stats.histogram OBVIOUS
<1>1. IsTable(tab) BY ResultsTable DEF ExactInv, FileInv, ReportTypeOK
<1>2. Described(f.summary.stats, tab) BY DEF ExactInv, Tells
<1>3. /\ h \in Histograms /\ Sorted(h, tab) /\ h.count = Count(tab, Answers)
      /\ IsLeast(h.min_ms, LatencySet(tab)) /\ IsGreatest(h.max_ms, LatencySet(tab))
  BY <1>2 DEF Described
<1>4. percent \in 1 .. 100 /\ h.count > 0 /\ h.overflow_count = 0 OBVIOUS
<1>5. IsClose(Quantile(h, percent), AtRank(tab, percent))
  BY <1>1, <1>3, <1>4, QuantilesOf
<1> QED BY <1>5

(* The percentiles of a merged file are within a bucket of those of all the *)
(* results, for any layout of the buckets, any latencies in their range and *)
(* any merges: buckets only add up, and never put one latency behind a      *)
(* smaller one.                                                            *)
THEOREM QuantilesStayClose == ReportSpec => []QuantilesAreClose
<1> QED BY ExactInvariance, ExactInvIsClose, PTL

-------------------------------------------------------------------------------
(* What is green.                                                          *)

(* What a summary tells of its runs that the thresholds rely on: it has not *)
(* forgotten the worst latency nor the certificate that ends first, and it *)
(* saw no answer and no certificate that there was not.                    *)
Counted(stats, of) ==
  /\ stats.responded \in Nat
  /\ stats.expiry \in Nat \cup {None} /\ stats.histogram \in Histograms
  /\ stats.responded > 0 => Answered(of)
  /\ stats.expiry # None => Certified(of)
  /\ \A n \in of : \A i \in DOMAIN timed_results[n] :
       LET r == timed_results[n][i]
       IN /\ r.responded => r.total_ms <= stats.histogram.max_ms
          /\ r.expiry # None => stats.expiry # None /\ stats.expiry <= r.expiry

LEMMA DescribedIsCounted ==
  ASSUME ReportTypeOK, NEW of \in SUBSET Nodes, NEW s, Described(s, Results(of))
  PROVE  Counted(s, of)
<1> PICK tab : tab = Results(of) OBVIOUS
<1>1. /\ IsTable(tab) /\ DOMAIN tab = UNION {RowsOf(n) : n \in of}
      /\ \A row \in DOMAIN tab : tab[row] = timed_results[row[1]][row[2]]
  BY ResultsTable
<1>2. ASSUME NEW row \in DOMAIN tab
      PROVE  \E n \in of : \E i \in DOMAIN timed_results[n] :
               tab[row] = timed_results[n][i]
  <2>1. PICK n \in of : row \in RowsOf(n) BY <1>1
  <2>2. row[1] = n /\ row[2] \in DOMAIN timed_results[n] BY <2>1 DEF RowsOf
  <2> QED BY <1>1, <2>2
<1>3. ASSUME NEW n \in of, NEW i \in DOMAIN timed_results[n]
      PROVE  \E row \in DOMAIN tab : tab[row] = timed_results[n][i]
  <2>1. <<n, i>> \in RowsOf(n) BY DEF RowsOf
  <2>2. <<n, i>> \in DOMAIN tab BY <1>1, <2>1
  <2> QED BY <1>1, <2>2
<1>4. \A row \in DOMAIN tab : tab[row] \in Kinds /\ tab[row] \in Outcomes
  BY <1>1, TableFacts
<1>5. /\ s.responded = Count(tab, Answers) /\ s.histogram \in Histograms
      /\ IsLeast(s.expiry, ExpirySet(tab))
      /\ IsGreatest(s.histogram.max_ms, LatencySet(tab))
  BY DEF Described
<1>6. s.responded \in Nat /\ (s.responded > 0 => Answered(of))
  <2>1. /\ Count(tab, Answers) \in Nat
        /\ Count(tab, Answers) = 0 <=> At(tab, Answers) = {}
    BY <1>1, TableFacts
  <2>2. ASSUME At(tab, Answers) # {} PROVE Answered(of)
    <3>1. PICK row \in DOMAIN tab : tab[row].responded BY <2>2 DEF At, Answers
    <3> QED BY <1>2, <3>1 DEF Answered
  <2> QED BY <1>5, <2>1, <2>2
<1>7. s.expiry \in Nat \cup {None} /\ (s.expiry # None => Certified(of))
  <2>1. ExpirySet(tab) \subseteq Nat BY <1>4 DEF ExpirySet, Outcomes
  <2>2. ASSUME s.expiry # None PROVE Certified(of)
    <3>1. s.expiry \in ExpirySet(tab) BY <1>5, <2>2 DEF IsLeast
    <3>2. PICK row \in DOMAIN tab : tab[row].expiry # None BY <3>1 DEF ExpirySet
    <3> QED BY <1>2, <3>2 DEF Certified
  <2> QED BY <1>5, <2>1, <2>2 DEF IsLeast
<1>8. ASSUME NEW n \in of, NEW i \in DOMAIN timed_results[n]
      PROVE  LET r == timed_results[n][i]
             IN /\ r.responded => r.total_ms <= s.histogram.max_ms
                /\ r.expiry # None => s.expiry # None /\ s.expiry <= r.expiry
  <2>1. PICK row \in DOMAIN tab : tab[row] = timed_results[n][i] BY <1>3
  <2> PICK r : r = tab[row] OBVIOUS
  <2>2. ASSUME r.responded PROVE r.total_ms <= s.histogram.max_ms
    <3>1. r.total_ms \in LatencySet(tab) BY <1>4, <2>2 DEF LatencySet, At, Answers
    <3> QED BY <1>5, <3>1 DEF IsGreatest
  <2>3. ASSUME r.expiry # None PROVE s.expiry # None /\ s.expiry <= r.expiry
    <3>1. r.expiry \in ExpirySet(tab) BY <2>3 DEF ExpirySet
    <3>2. s.expiry \in ExpirySet(tab) /\ s.expiry <= r.expiry
      BY <1>5, <3>1 DEF IsLeast
    <3> QED BY <3>2 DEF ExpirySet
  <2> QED BY <2>1, <2>2, <2>3
<1> QED BY <1>5, <1>6, <1>7, <1>8 DEF Counted

(* What holds of the worst holds of what is better.                        *)
LEMMA BestOfWorst ==
  ASSUME NEW best \in Int, NEW worst \in Int, NEW limit \in Int, NEW op,
         Holds(op, <<worst, 1>>, <<limit, 1>>),
         \/ op \in {"<", "<="} /\ best <= worst
         \/ op \in {">", ">="} /\ worst <= best
  PROVE  Holds(op, <<best, 1>>, <<limit, 1>>)
<1>1. CASE op = "<" BY <1>1 DEF Holds, Below
<1>2. CASE op = "<=" BY <1>2 DEF Holds, Below
<1>3. CASE op = ">" BY <1>3 DEF Holds, Below
<1>4. CASE op = ">=" BY <1>4 DEF Holds, Below
<1> QED BY <1>1, <1>2, <1>3, <1>4

(* A judgement is as good as the statistics it is passed on.               *)
LEMMA GreenSays ==
  ASSUME ReportTypeOK, NEW s, NEW of, of \subseteq Nodes,
         Counted(s.stats, of), Judged(s) = 0
  PROVE  (\A t \in criteria : Measured(t.metric, of)) /\ NoNodeHides(of)
<1>1. criteria \subseteq Criteria BY LaunchesAssumption DEF ReportTypeOK
<1>2. \A t \in criteria : Passes(t, Namespace(s))
  BY DEF Judged, AllPass
<1>3. \A t \in criteria : t.metric \in Metrics \ Missing(s)
                         /\ Holds(t.op, Defined(s)[t.metric], <<t.limit, 1>>)
  <2>1. DOMAIN Defined(s) = Metrics BY DEF Defined
  <2>2. DOMAIN Namespace(s) = Metrics \ Missing(s)
        /\ \A m \in Metrics \ Missing(s) : Namespace(s)[m] = Defined(s)[m]
    BY <2>1 DEF Namespace, Without
  <2> QED BY <1>2, <2>2 DEF Passes
<1>4. ASSUME NEW t \in criteria PROVE Measured(t.metric, of)
  <2>1. CASE t.metric = "cert_expiry_days"
    <3>1. s.stats.expiry # None BY <1>3, <2>1 DEF Missing
    <3>2. Certified(of) BY <3>1 DEF Counted
    <3>3. "cert_expiry_days" \notin SAMPLE_DEPENDENT_METRICS
      BY DEF SAMPLE_DEPENDENT_METRICS
    <3> QED BY <2>1, <3>2, <3>3 DEF Measured
  <2>2. CASE t.metric \in SAMPLE_DEPENDENT_METRICS /\ t.metric # "cert_expiry_days"
    <3>1. s.stats.responded # 0 BY <1>3, <2>2 DEF Missing
    <3>2. s.stats.responded > 0 BY <3>1 DEF Counted
    <3> QED BY <2>2, <3>2 DEF Counted, Measured
  <2>3. CASE t.metric \notin SAMPLE_DEPENDENT_METRICS /\ t.metric # "cert_expiry_days"
    BY <2>3 DEF Measured
  <2> QED BY <2>1, <2>2, <2>3
<1>5. ASSUME NEW t \in criteria, NEW n \in of, NEW i \in DOMAIN timed_results[n]
      PROVE  LET r == timed_results[n][i]
             IN /\ t.metric = "max_latency" /\ t.op \in {"<", "<="} /\ r.responded
                     => Holds(t.op, <<r.total_ms, 1>>, <<t.limit, 1>>)
                /\ t.metric = "cert_expiry_days" /\ t.op \in {">", ">="}
                   /\ r.expiry # None
                     => Holds(t.op, <<r.expiry, 1>>, <<t.limit, 1>>)
  <2> DEFINE r == timed_results[n][i]
  <2>1. r \in Outcomes
    <3>1. timed_results[n] \in [DOMAIN timed_results[n] -> Kinds] BY RowsOfRun
    <3> QED BY <3>1, KindsAssumption
  <2>2. r.total_ms \in Int /\ r.expiry \in Int /\ t.limit \in Int
    BY <1>1, <2>1 DEF Outcomes, Criteria, None
  <2>3. /\ r.responded => r.total_ms <= s.stats.histogram.max_ms
        /\ r.expiry # None => s.stats.expiry # None /\ s.stats.expiry <= r.expiry
    BY DEF Counted
  <2>4. s.stats.expiry \in Int /\ s.stats.histogram.max_ms \in Int
    BY DEF Counted, Histograms, None
  <2>5. "max_latency" \in Metrics /\ "cert_expiry_days" \in Metrics
    BY DEF Metrics
  <2>6. Defined(s)["max_latency"] = <<s.stats.histogram.max_ms, 1>>
    BY <2>5 DEF Defined
  <2>7. Defined(s)["cert_expiry_days"] = <<s.stats.expiry, 1>>
    BY <2>5 DEF Defined
  <2> HIDE DEF r
  <2>8. ASSUME t.metric = "max_latency", t.op \in {"<", "<="}, r.responded
        PROVE  Holds(t.op, <<r.total_ms, 1>>, <<t.limit, 1>>)
    <3>1. Holds(t.op, <<s.stats.histogram.max_ms, 1>>, <<t.limit, 1>>)
      BY <1>3, <2>6, <2>8
    <3>2. r.total_ms <= s.stats.histogram.max_ms BY <2>3, <2>8
    <3> QED BY <2>2, <2>4, <2>8, <3>1, <3>2, BestOfWorst
  <2>9. ASSUME t.metric = "cert_expiry_days", t.op \in {">", ">="}, r.expiry # None
        PROVE  Holds(t.op, <<r.expiry, 1>>, <<t.limit, 1>>)
    <3>1. Holds(t.op, <<s.stats.expiry, 1>>, <<t.limit, 1>>)
      BY <1>3, <2>7, <2>9
    <3>2. s.stats.expiry <= r.expiry BY <2>3, <2>9
    <3> QED BY <2>2, <2>4, <2>9, <3>1, <3>2, BestOfWorst
  <2> QED BY <2>8, <2>9 DEF r
<1> QED BY <1>4, <1>5 DEF NoNodeHides

(* The last command was about runs that are over, and is green of them     *)
(* only if it has earned it.                                               *)
GreenInv == ExactInv /\ last.of \cap running = {} /\ GreenIsEarned

LEMMA EarnedStays ==
  ASSUME GreenIsEarned, UNCHANGED <<last, criteria>>,
         \A n \in last.of : timed_results'[n] = timed_results[n]
  PROVE  GreenIsEarned'
<1> DEFINE of == last.of
<1>1. ASSUME NEW m, Measured(m, last.of) PROVE Measured(m, last.of)'
  <2>1. Answered(last.of) => Answered(last.of)' BY DEF Answered
  <2>2. Certified(last.of) => Certified(last.of)' BY DEF Certified
  <2> QED BY <1>1, <2>1, <2>2 DEF Measured
<1>2. ASSUME NoNodeHides(last.of) PROVE NoNodeHides(last.of)'
  <2>1. last' = last /\ criteria' = criteria OBVIOUS
  <2> SUFFICES ASSUME NEW t \in criteria, NEW n \in last.of,
                      NEW i \in DOMAIN timed_results[n]
               PROVE  LET r == timed_results[n][i]
                      IN /\ t.metric = "max_latency" /\ t.op \in {"<", "<="}
                            /\ r.responded
                              => Holds(t.op, <<r.total_ms, 1>>, <<t.limit, 1>>)
                         /\ t.metric = "cert_expiry_days" /\ t.op \in {">", ">="}
                            /\ r.expiry # None
                              => Holds(t.op, <<r.expiry, 1>>, <<t.limit, 1>>)
    BY <2>1 DEF NoNodeHides
  <2> QED BY <1>2 DEF NoNodeHides
<1> QED BY <1>1, <1>2 DEF GreenIsEarned

(* A run that ends, and any merge, is judged by what its file tells.       *)
LEMMA JudgedIsEarned ==
  ASSUME ReportTypeOK, UNCHANGED <<criteria, timed_results>>,
         NEW s, NEW of, of \subseteq Nodes, Tells(s, Results(of)),
         last' = [exit |-> Judged(s), of |-> of, ended |-> TRUE]
  PROVE  GreenIsEarned'
<1> SUFFICES ASSUME Judged(s) = 0
             PROVE  (\A t \in criteria : Measured(t.metric, of)') /\ NoNodeHides(of)'
  BY DEF GreenIsEarned
<1>1. Counted(s.stats, of) BY DescribedIsCounted DEF Tells
<1>2. (\A t \in criteria : Measured(t.metric, of)) /\ NoNodeHides(of)
  BY <1>1, GreenSays
<1>3. \A m : Measured(m, of)' = Measured(m, of)
  BY DEF Measured, Answered, Certified
<1>4. NoNodeHides(of)' = NoNodeHides(of) BY DEF NoNodeHides
<1> QED BY <1>2, <1>3, <1>4

LEMMA StepKeepsGreen ==
  ASSUME GreenInv, ExactInv', [ReportNext]_reportVars
  PROVE  GreenInv'
<1>1. FileInv /\ ReportTypeOK BY DEF GreenInv, ExactInv, FileInv
<1>2. ASSUME NEW n \in Nodes, load_test(n) PROVE GreenInv'
  <2> PICK s : s = Summarize(n) OBVIOUS
  <2> PICK of : of = {n} OBVIOUS
  <2>1. /\ UNCHANGED <<criteria, timed_results>> /\ running' = running \ {n}
        /\ last' = [exit |-> Judged(s), of |-> of, ended |-> TRUE]
    BY <1>2 DEF load_test
  <2>2. Tells(s, Results(of)) BY <1>1, ToldAlone
  <2>3. GreenIsEarned' BY <1>1, <2>1, <2>2, JudgedIsEarned
  <2>4. last'.of \cap running' = {} BY <2>1
  <2> QED BY <2>3, <2>4 DEF GreenInv
<1>3. ASSUME NEW chosen \in SUBSET files, merge_load_test(chosen) PROVE GreenInv'
  <2> PICK s : s = merge_payloads(chosen) OBVIOUS
  <2> PICK of : of = UNION {f.of : f \in chosen} OBVIOUS
  <2>1. /\ UNCHANGED <<criteria, timed_results, running>>
        /\ chosen # {} /\ Mergeable(chosen)
        /\ last' = [exit |-> Judged(s), of |-> of, ended |-> TRUE]
    BY <1>3 DEF merge_load_test
  <2>2. Tells(s, Results(of))
    <3>1. \A f \in chosen : Tells(f.summary, Results(f.of)) BY DEF GreenInv, ExactInv
    <3> QED BY <1>1, <2>1, <3>1, ToldTogether
  <2>3. of \subseteq Nodes /\ of \cap running = {} BY <1>1 DEF ReportTypeOK
  <2>4. GreenIsEarned' BY <1>1, <2>1, <2>2, <2>3, JudgedIsEarned
  <2>5. last'.of \cap running' = {} BY <2>1, <2>3
  <2> QED BY <2>4, <2>5 DEF GreenInv
<1>4. ASSUME NEW n \in Nodes, NEW kind \in Kinds, Answer(n, kind) PROVE GreenInv'
  <2>1. /\ UNCHANGED <<criteria, running, last>> /\ n \in running
        /\ \A m \in Nodes \ {n} : timed_results'[m] = timed_results[m]
    BY <1>1, <1>4 DEF Answer, ReportTypeOK
  <2>2. last.of \cap running = {} /\ last.of \subseteq Nodes
    BY <1>1 DEF GreenInv, ReportTypeOK
  <2>3. GreenIsEarned' BY <2>1, <2>2, EarnedStays DEF GreenInv
  <2> QED BY <2>1, <2>2, <2>3 DEF GreenInv
<1>5. ASSUME NEW n \in Nodes, Interrupt(n) PROVE GreenInv'
  <2>1. running' = running \ {n} /\ last'.of = {n} /\ last'.ended = FALSE
    BY <1>5 DEF Interrupt
  <2>2. GreenIsEarned' BY <2>1 DEF GreenIsEarned
  <2>3. last'.of \cap running' = {} BY <2>1
  <2> QED BY <2>2, <2>3 DEF GreenInv
<1>6. ASSUME NEW chosen \in SUBSET files, Refuse(chosen) PROVE GreenInv'
  <2>1. /\ UNCHANGED running
        /\ last'.of = UNION {f.of : f \in chosen} /\ last'.exit = 2
    BY <1>6 DEF Refuse
  <2>2. GreenIsEarned' BY <2>1 DEF GreenIsEarned
  <2>3. last'.of \cap running' = {} BY <1>1, <2>1 DEF ReportTypeOK
  <2> QED BY <2>2, <2>3 DEF GreenInv
<1>7. CASE UNCHANGED reportVars
  <2>1. UNCHANGED <<criteria, timed_results, running, last>>
    BY <1>7 DEF reportVars
  <2>2. GreenIsEarned' BY <2>1, EarnedStays DEF GreenInv
  <2> QED BY <2>1, <2>2 DEF GreenInv
<1> QED BY <1>2, <1>3, <1>4, <1>5, <1>6, <1>7 DEF ReportNext

(* A threshold never passes vacuously, and no node hides behind the others: *)
(* of any runs, with any results, merged in any order and in any number of  *)
(* steps, and any thresholds.                                              *)
THEOREM GreenIsEarnedAlways == ReportSpec => []GreenIsEarned
<1>1. ReportInit => last.of \cap running = {} /\ GreenIsEarned
  BY DEF ReportInit, NoCommand, GreenIsEarned
<1>2. ReportInit /\ ExactInv => GreenInv BY <1>1 DEF GreenInv
<1>3. GreenInv /\ ExactInv' /\ [ReportNext]_reportVars => GreenInv'
  BY StepKeepsGreen
<1>4. GreenInv => GreenIsEarned BY DEF GreenInv
<1> QED BY <1>2, <1>3, <1>4, ExactInvariance, PTL DEF ReportSpec

===============================================================================
