--------------------------- MODULE MCDistributedRun ---------------------------
(* Instances of DistributedRun.                                              *)
EXTENDS DistributedRun

(* One or two workers for one or two targets, and three workers for one      *)
(* target replicated or for two targets dealt out.                           *)
MCScenarios ==
  {a \in [distribution : {"replicate", "shard"}, paced : BOOLEAN,
          workers : 1 .. 3, targets : 1 .. 2] :
     /\ a.workers = 3 => ~(a.distribution = "replicate" /\ a.targets = 2)
     /\ ~a.paced => a.workers = 1}

===============================================================================
