------------------------------ MODULE MCDnsEngine ------------------------------
(* Instances of DnsEngine.                                                   *)
EXTENDS DnsEngine

CONSTANTS r1, r2, d1, d2

(* Plain queries to two resolvers, with every use of the cache and every     *)
(* warm-up; DNS over HTTPS; DNS over TLS to one resolver: with retries and   *)
(* one query at a time, overlapping after a warm-up that leaves them its     *)
(* connection, and a third query that comes between two that overlap.        *)
MCScenarios ==
  [resolvers : {{r1, r2}}, questions : {{d1}}, iterations : {1}, slots : {1, 2},
   retries : {1}, protocol : {"plain"}, cache : {"used"},
   warmup : {"none", "full", "fast"}]
  \cup
  [resolvers : {{r1, r2}}, questions : {{d1}}, iterations : {1}, slots : {2},
   retries : {1}, protocol : {"plain"}, cache : {"off", "kept"},
   warmup : {"none", "full"}]
  \cup
  [resolvers : {{r1}}, questions : {{d1, d2}}, iterations : {1}, slots : {2},
   retries : {0}, protocol : {"plain"}, cache : {"used"}, warmup : {"full", "fast"}]
  \cup
  [resolvers : {{r1, r2}}, questions : {{d1}}, iterations : {1}, slots : {2},
   retries : {1}, protocol : {"doh"}, cache : {"used"}, warmup : {"full"}]
  \cup
  [resolvers : {{r1}}, questions : {{d1}}, iterations : {2}, slots : {1},
   retries : {1}, protocol : {"dot"}, cache : {"off"}, warmup : {"none"}]
  \cup
  [resolvers : {{r1}}, questions : {{d1}}, iterations : {2}, slots : {2},
   retries : {0}, protocol : {"dot"}, cache : {"off"}, warmup : {"fast"}]
  \cup
  [resolvers : {{r1}}, questions : {{d1}}, iterations : {3}, slots : {2},
   retries : {0}, protocol : {"dot"}, cache : {"off"}, warmup : {"none"}]

===============================================================================
