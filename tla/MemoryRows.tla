----------------------------- MODULE MemoryRows -----------------------------
(***************************************************************************)
(* What the memory storage does to one metric and to a batch               *)
(* (internal/storage/memstorage/memstorage.go, internal/model/metrics.go). *)
(* Rows are those of MetricRows; Other is any float64 that is no int64.    *)
(***************************************************************************)
EXTENDS MetricRows

\* An int64 wraps around.
Wrap(n) == ((n + Limit) % (2 * Limit)) - Limit

\* A metric is stored already, with the other type.
Mismatch(row, e) == row # NoRow /\ row.type # e.type

\* Mutant: the sum is not kept in an int64.
MergeUnbounded(row, e) ==
    IF row = NoRow THEN [type |-> e.type, value |-> e.value]
    ELSE [row EXCEPT !.value = IF e.type = "counter" THEN row.value + e.value
                               ELSE e.value]

\* The metric is inserted, or SetValue is called on the one that is there.
Merge(row, e) ==
    IF row = NoRow THEN [type |-> e.type, value |-> e.value]
    ELSE [row EXCEPT !.value = IF e.type = "counter"
                               THEN Wrap(row.value + e.value)
                               ELSE e.value]

\* A table after the first k elements of a batch.
MergedFirst(table, b, k) ==
    [id \in Ids |->
        IF \E i \in 1 .. k : b[i].id = id
        THEN Merge(table[id], b[CHOOSE i \in 1 .. k : b[i].id = id])
        ELSE table[id]]

\* A batch stops after k elements: at its end, or at its first mismatch.
StopsAfter(table, b, k) ==
    /\ \A i \in 1 .. k : ~Mismatch(table[b[i].id], b[i])
    /\ k < Len(b) => Mismatch(table[b[k + 1].id], b[k + 1])
=============================================================================
