----------------------------- MODULE MCLoadReport ------------------------------
(* Three nodes with up to two, one and one results.                        *)
EXTENDS LoadReport

CONSTANTS n1, n2, n3

MCNodes == {n1, n2, n3}
MCMaxResults == [n \in MCNodes |-> IF n = n1 THEN 2 ELSE 1]

Reply == [completed |-> TRUE, responded |-> TRUE, expected |-> TRUE,
          total_ms |-> 32, ttfb_ms |-> 2, dns_ms |-> 4, http2 |-> TRUE,
          expiry |-> None, at |-> 0]

(* A reply whose latency is the top of the range, one whose name was cached *)
(* and whose latency is below the first bucket, one with an unexpected      *)
(* status, a timeout, and a reply so slow that it is out of range.          *)
MCKinds ==
  {Reply,
   [Reply EXCEPT !.dns_ms = None, !.total_ms = 0, !.ttfb_ms = 0,
                 !.expiry = 9, !.at = 3],
   [Reply EXCEPT !.completed = FALSE, !.expected = FALSE, !.total_ms = 11,
                 !.dns_ms = 9, !.http2 = FALSE, !.expiry = 20, !.at = 1],
   [Reply EXCEPT !.completed = FALSE, !.responded = FALSE, !.expected = FALSE,
                 !.total_ms = 40, !.dns_ms = None, !.at = 3],
   [Reply EXCEPT !.total_ms = 47, !.expiry = 9, !.at = 1]}

Normal == [epoch |-> 10, clock_offset |-> 0, bucket |-> 2, paced |-> TRUE,
           dropped |-> 1, duration |-> 4, offset |-> 0]

Threshold(metric, op, limit) == [metric |-> metric, op |-> op, limit |-> limit]

Started(node, differently) ==
  [n \in MCNodes |-> IF n = node THEN differently ELSE Normal]

(* n2 is started too late; n3 has no epoch; the clock of n2 is out of step; *)
(* the epochs drift apart by the tolerance each.                           *)
MCLaunches ==
  {[start |-> Started(n2, [Normal EXCEPT !.epoch = 12]),
    criteria |-> {Threshold("max_latency", "<=", 32),
                  Threshold("p95_latency", "<", 40)}],
   [start |-> Started(n3, [Normal EXCEPT !.epoch = None]),
    criteria |-> {Threshold("cert_expiry_days", ">", 9)}],
   [start |-> Started(n2, [Normal EXCEPT !.clock_offset = -2]),
    criteria |-> {Threshold("cert_expiry_days", ">=", 9)}],
   [start |-> [Started(n2, [Normal EXCEPT !.epoch = 11, !.dropped = 0])
                 EXCEPT ![n3] = [Normal EXCEPT !.epoch = 9]],
    criteria |-> {Threshold("p95_ttfb_ms", "<", 5),
                  Threshold("avg_dns_ms", "<", 5),
                  Threshold("unexpected_status_rate", "<", 50)}]}

================================================================================
