--------------------------- MODULE MCDatabaseStore ---------------------------
(* Instances of DatabaseStore for TLC. *)
EXTENDS DatabaseStore

CONSTANTS hits, load, c1, c2

Counter(id, n) == [id |-> id, type |-> "counter", value |-> n]
Gauge(id, v) == [id |-> id, type |-> "gauge", value |-> v]

\* A report in both orders, and one of each with the other's type.
Mixed == {<<Counter(hits, 1), Gauge(load, Other)>>,
          <<Gauge(load, 0), Counter(hits, 1)>>,
          <<Counter(load, -2)>>,
          <<Gauge(hits, Other)>>}
=============================================================================
