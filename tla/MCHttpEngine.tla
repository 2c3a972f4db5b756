----------------------------- MODULE MCHttpEngine -----------------------------
(* Instances of HttpEngine.                                                  *)
EXTENDS HttpEngine

(* Two targets of one host: engines with and without a cache, over HTTP/1.1  *)
(* with a slot per request and with one for both, over HTTP/2 with a cache   *)
(* and two slots; the warm-up, with twice the requests, over HTTP/1.1 and    *)
(* with a cache; and redirects, within the host and elsewhere, followed by   *)
(* the requests of a load test over HTTP/1.1 without a cache.                *)
MCScenarios ==
  {a \in [slots : {1, 2}, ttl : {0, 1}, http2 : BOOLEAN, redirects : BOOLEAN,
          host : [Targets -> Hosts], caller : Callers] :
     /\ a.http2 => a.slots = 2 /\ a.ttl = 1
     /\ a.caller = "warm benchmark" => ~a.http2 /\ a.slots = 2 /\ a.ttl = 1
     /\ a.redirects => a.caller = "load test" /\ a.slots = 2 /\ a.ttl = 0}

===============================================================================
