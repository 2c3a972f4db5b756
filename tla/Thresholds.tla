------------------------------ MODULE Thresholds -------------------------------
(***************************************************************************)
(* Thresholds (http_bench/analysis.py): expressions of a metric, a         *)
(* comparison and a number that a run must satisfy, evaluated against the  *)
(* metrics the run could compute.  The load test and the TLS check share   *)
(* them.  A metric is a fraction, <<numerator, denominator>>.              *)
(***************************************************************************)
EXTENDS Integers

Below(x, y) == x[1] * y[2] < y[1] * x[2]

Equal(x, y) == x[1] * y[2] = y[1] * x[2]

(* Of no samples, a mean or a rate is zero.                                *)
Fraction(n, d) == IF d = 0 THEN <<0, 1>> ELSE <<n, d>>

Holds(op, actual, limit) ==
  CASE op = "<=" -> ~ Below(limit, actual)
    [] op = ">=" -> ~ Below(actual, limit)
    [] op = "<" -> Below(actual, limit)
    [] op = ">" -> Below(limit, actual)
    [] op = "==" -> Equal(actual, limit)
    [] op = "!=" -> ~ Equal(actual, limit)

(* A metric that is missing fails its threshold.                           *)
Passes(t, namespace) ==
  /\ t.metric \in DOMAIN namespace
  /\ Holds(t.op, namespace[t.metric], <<t.limit, 1>>)

AllPass(thresholds, namespace) == \A t \in thresholds : Passes(t, namespace)

Without(namespace, metrics) ==
  [m \in DOMAIN namespace \ metrics |-> namespace[m]]
================================================================================
