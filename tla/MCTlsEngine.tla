------------------------------ MODULE MCTlsEngine ------------------------------
(* Instances of TlsEngine.                                                   *)
EXTENDS TlsEngine

CONSTANTS t1, t2, t3, h1, h2

OnOneHost == [t \in Targets |-> h1]
OnTwoHosts == [t \in Targets |-> IF t = t3 THEN h2 ELSE h1]
Port(n) == [t \in Targets |-> StartTLSForPort(n)]

(* One target of each scanned port, with warm-up, samples, a retry and every *)
(* check; two targets of a host that fetch, one after the other and          *)
(* together; three targets of two hosts for two slots.                       *)
MCScenarios ==
  [targets : {{t1}}, host : {OnOneHost}, starttls : {Port(n) : n \in {25, 143, 110, 389, 21, 443}},
   serial : {TRUE}, slots : {1}, warmups : {1}, samples : {2}, retries : {1},
   checks : {ToSet(Checks)}]
  \cup
  [targets : {{t1, t2}}, host : {OnOneHost}, starttls : {Port(443)},
   serial : BOOLEAN, slots : {2}, warmups : {0}, samples : {1}, retries : {0},
   checks : {{"ct", "profiles"}}]
  \cup
  [targets : {{t1, t2, t3}}, host : {OnTwoHosts}, starttls : {Port(443)},
   serial : {TRUE}, slots : {2}, warmups : {0}, samples : {1}, retries : {0},
   checks : {{}}]

===============================================================================
