----------------------------- MODULE MetricRows -----------------------------
(***************************************************************************)
(* Rows of the metrics table and the statements that write and read them   *)
(* (internal/storage/postgresql/postgresql.go, internal/model/metrics.go). *)
(*                                                                         *)
(* A value is the text the table holds: a number when the text is that of  *)
(* an int64, and Other for any text a gauge can have that is not.          *)
(***************************************************************************)
EXTENDS Integers, Sequences

CONSTANTS
    Ids,     \* names of metrics
    Limit,   \* 2^63
    Other,   \* the text of a float64 that does not parse as an int64
    NoRow    \* the table has no row for a name

Types == {"counter", "gauge"}
Int64 == -Limit .. (Limit - 1)
Value == {Other} \cup Int64

Row == [type : Types, value : Value]

ASSUME RowConstants ==
    /\ Limit \in Nat \ {0}
    /\ Other \notin Int
    /\ NoRow \notin Row

\* What a handler hands over for one metric: a counter's delta is an int64.
Element ==
    {e \in [id : Ids, type : Types, value : Value] :
        e.type = "counter" => e.value # Other}

Table == [Ids -> {NoRow} \cup Row]

\* Mutant: the texts are cast to NUMERIC.
RefusedNumeric(row, e) ==
    row # NoRow /\ e.type = "counter" /\ row.value = Other

\* A counter is added to the text that is there, whatever the row's type: a
\* text that is not a BIGINT, or a sum that is not, is an error.
Refused(row, e) ==
    /\ row # NoRow
    /\ e.type = "counter"
    /\ row.value # Other => row.value + e.value \notin Int64

\* Mutant: the conflict also updates the type.
UpsertTyped(row, e) ==
    [type |-> e.type,
     value |-> IF e.type = "counter" /\ row # NoRow THEN row.value + e.value
               ELSE e.value]

\* INSERT ... ON CONFLICT (id) DO UPDATE SET value: the type stays.
Upsert(row, e) ==
    IF row = NoRow THEN [type |-> e.type, value |-> e.value]
    ELSE [row EXCEPT !.value = IF e.type = "counter" THEN row.value + e.value
                               ELSE e.value]

\* NewMetric and SetValue: a counter's text has to be an int64.
Readable(row) ==
    row.type = "counter" => row.value # Other /\ row.value \in Int64

-----------------------------------------------------------------------------
(* Batches *)

\* The agent sends a map: a name occurs once in a batch.
Distinct(b) == \A i, j \in DOMAIN b : b[i].id = b[j].id => i = j

Names(b) == {b[i].id : i \in DOMAIN b}

\* All of a batch can be applied to a table, and the table after it.
Applicable(table, b) == \A i \in DOMAIN b : ~Refused(table[b[i].id], b[i])

After(table, b) ==
    [id \in Ids |->
        IF id \in Names(b)
        THEN Upsert(table[id], b[CHOOSE i \in DOMAIN b : b[i].id = id])
        ELSE table[id]]
=============================================================================
