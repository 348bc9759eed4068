---------------------------- MODULE MCMemoryStore ----------------------------
(* Instances of MemoryStore for TLC. *)
EXTENDS MemoryStore

CONSTANTS hits, load, c1, c2

Counter(id, n) == [id |-> id, type |-> "counter", value |-> n]
Gauge(id, v) == [id |-> id, type |-> "gauge", value |-> v]

\* A report in both orders, one update that wraps a counter around, and each
\* name with the other's type, alone and after a metric that fits.
Mixed == {<<Counter(hits, 1), Gauge(load, Other)>>,
          <<Gauge(load, 0), Counter(hits, 1)>>,
          <<Counter(hits, -2)>>,
          <<Gauge(hits, 0)>>,
          <<Counter(hits, 1), Counter(load, 1)>>}
=============================================================================
