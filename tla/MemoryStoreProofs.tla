-------------------------- MODULE MemoryStoreProofs --------------------------
(* Theorems about MemoryStore, for any metrics, clients and batches. *)
EXTENDS MemoryStore, TLAPS

-----------------------------------------------------------------------------
(* Rows *)

\* A sum is an int64 again.
LEMMA WrapIsInt64 == ASSUME NEW n \in Int PROVE Wrap(n) \in Int64
<1>1. Limit \in Nat \ {0}
  BY RowConstants
<1>2. ASSUME NEW a \in Int, NEW b \in Nat \ {0} PROVE a % b \in 0 .. b - 1
  BY <1>2
<1>3. (n + Limit) % (2 * Limit) \in 0 .. 2 * Limit - 1
  BY <1>1, <1>2
<1>4. QED
  BY <1>1, <1>3 DEF Wrap, Int64

\* The value of a counter is a number.
Counts(row) == row # NoRow /\ row.type = "counter" => row.value # Other

\* Merging a metric of the same type leaves a row.
LEMMA MergeIsRow ==
    ASSUME NEW row \in {NoRow} \cup Row, NEW e \in Element,
           Counts(row), ~Mismatch(row, e)
    PROVE  Merge(row, e) \in Row /\ Counts(Merge(row, e))
<1> USE RowConstants DEF Row, Element, Value, Types
<1>1. CASE row = NoRow
  BY <1>1 DEF Merge, Counts
<1>2. CASE row # NoRow /\ e.type = "gauge"
  BY <1>2 DEF Merge, Mismatch, Counts
<1>3. CASE row # NoRow /\ e.type = "counter"
  <2>1. row.value \in Int /\ e.value \in Int /\ row.type = "counter"
    BY <1>3 DEF Mismatch, Counts, Int64
  <2>2. Wrap(row.value + e.value) \in Int64 /\ Other \notin Int64
    BY <2>1, WrapIsInt64 DEF Int64
  <2>3. Merge(row, e) = [row EXCEPT !.value = Wrap(row.value + e.value)]
    BY <1>3 DEF Merge
  <2>4. ASSUME NEW v \in Int64
        PROVE  /\ [row EXCEPT !.value = v] \in Row
               /\ [row EXCEPT !.value = v].value # Other
    <3>1. row \in Row /\ v # Other
      BY <1>3 DEF Int64
    <3>2. QED
      BY <3>1
  <2>5. QED
    BY <2>2, <2>3, <2>4 DEF Counts
<1>4. QED
  BY <1>1, <1>2, <1>3

\* What the first k elements of a batch make of a name they contain.
LEMMA MergedFirstHit ==
    ASSUME NEW t, NEW b \in Seq(Element), Distinct(b), NEW k \in 0 .. Len(b),
           NEW i \in 1 .. k, b[i].id \in Ids
    PROVE  MergedFirst(t, b, k)[b[i].id] = Merge(t[b[i].id], b[i])
<1>1. Len(b) \in Nat /\ DOMAIN b = 1 .. Len(b) /\ 1 .. k \subseteq 1 .. Len(b)
  BY SMT
<1>2. \A j \in 1 .. k : b[j].id = b[i].id => j = i
  BY <1>1 DEF Distinct
<1>3. (CHOOSE j \in 1 .. k : b[j].id = b[i].id) = i
  BY <1>2
<1>4. QED
  BY <1>3 DEF MergedFirst

\* And of one they do not.
LEMMA MergedFirstMiss ==
    ASSUME NEW t, NEW b, NEW k, NEW id \in Ids, \A i \in 1 .. k : b[i].id # id
    PROVE  MergedFirst(t, b, k)[id] = t[id]
BY DEF MergedFirst

\* Merging the next element is merging one element more.
LEMMA MergedFirstStep ==
    ASSUME NEW t \in Table, NEW b \in Seq(Element), Distinct(b),
           NEW k \in Nat, k < Len(b)
    PROVE  /\ b[k + 1] \in Element /\ b[k + 1].id \in Ids
           /\ \A i \in 1 .. k : b[i].id # b[k + 1].id
           /\ MergedFirst(t, b, k)[b[k + 1].id] = t[b[k + 1].id]
           /\ MergedFirst(t, b, k + 1)
                = [MergedFirst(t, b, k) EXCEPT ![b[k + 1].id] =
                      Merge(t[b[k + 1].id], b[k + 1])]
<1> DEFINE e == b[k + 1]
<1>1. /\ Len(b) \in Nat /\ DOMAIN b = 1 .. Len(b)
      /\ k \in 0 .. Len(b) /\ k + 1 \in 0 .. Len(b) /\ k + 1 \in 1 .. Len(b)
      /\ k + 1 \in 1 .. k + 1 /\ 1 .. k + 1 = (1 .. k) \cup {k + 1}
      /\ 1 .. k \subseteq 1 .. Len(b) /\ k + 1 \notin 1 .. k
  BY SMT
<1>2. e \in Element /\ e.id \in Ids
  BY <1>1 DEF Element
<1>3. \A i \in 1 .. k : b[i].id # e.id
  BY <1>1 DEF Distinct
<1>4. MergedFirst(t, b, k)[e.id] = t[e.id]
  BY <1>2, <1>3, MergedFirstMiss
<1>5. MergedFirst(t, b, k + 1)[e.id] = Merge(t[e.id], e)
  BY <1>1, <1>2, MergedFirstHit
<1> HIDE DEF e
<1>6. ASSUME NEW id \in Ids, id # e.id
      PROVE  MergedFirst(t, b, k + 1)[id] = MergedFirst(t, b, k)[id]
  <2>1. CASE \E i \in 1 .. k : b[i].id = id
    <3>1. PICK i \in 1 .. k : b[i].id = id
      BY <2>1
    <3>2. i \in 1 .. k + 1
      BY <1>1, <3>1
    <3>3. MergedFirst(t, b, k)[id] = Merge(t[id], b[i])
      BY <1>1, <3>1, MergedFirstHit
    <3>4. MergedFirst(t, b, k + 1)[id] = Merge(t[id], b[i])
      BY <1>1, <3>1, <3>2, MergedFirstHit
    <3>5. QED
      BY <3>3, <3>4
  <2>2. CASE \A i \in 1 .. k : b[i].id # id
    <3>1. \A i \in 1 .. k + 1 : b[i].id # id
      BY <1>1, <1>6, <2>2 DEF e
    <3>2. MergedFirst(t, b, k)[id] = t[id]
      BY <2>2, MergedFirstMiss
    <3>3. MergedFirst(t, b, k + 1)[id] = t[id]
      BY <3>1, MergedFirstMiss
    <3>4. QED
      BY <3>2, <3>3
  <2>3. QED
    BY <2>1, <2>2
<1>7. MergedFirst(t, b, k + 1)
        = [MergedFirst(t, b, k) EXCEPT ![e.id] = Merge(t[e.id], e)]
  <2> DEFINE f == MergedFirst(t, b, k)
             g == MergedFirst(t, b, k + 1)
  <2>1. f = [id \in Ids |-> f[id]] /\ g = [id \in Ids |-> g[id]]
    BY DEF MergedFirst
  <2>2. g[e.id] = Merge(t[e.id], e) /\ \A id \in Ids : id # e.id => g[id] = f[id]
    BY <1>5, <1>6
  <2> HIDE DEF f, g
  <2>3. g = [f EXCEPT ![e.id] = Merge(t[e.id], e)]
    BY <1>2, <2>1, <2>2
  <2>4. QED
    BY <2>3 DEF f, g
<1>8. QED
  BY <1>2, <1>3, <1>4, <1>7 DEF e
-----------------------------------------------------------------------------
(* The invariant *)

\* Every counter that is stored counts.
Counters == \A id \in Ids : Counts(metrics[id])

\* The lock is held by the one request that is in the loop, which has done
\* the elements before next to the metrics it found.
Held ==
    /\ holder = Nobody => next = 1 /\ metrics = base
    /\ \A c \in Clients : pc[c] \in {"update", "locked"} => batch[c] \in Batches
    /\ \A c \in Clients : pc[c] = "locked" <=> holder = c
    /\ \A c \in Clients : pc[c] = "locked" =>
          /\ next - 1 <= Len(batch[c])
          /\ metrics = MergedFirst(base, batch[c], next - 1)
          /\ \A i \in 1 .. next - 1 :
                ~Mismatch(base[batch[c][i].id], batch[c][i])

IInv == TypeOK /\ Counters /\ Held

\* What SetValue finds and does.
LEMMA SetValueMerges ==
    ASSUME IInv, NEW c \in Clients, InLoop(c)
    PROVE  LET e == Current(c) IN
           /\ holder = c /\ batch[c] \in Batches /\ batch[c] \in Seq(Element)
           /\ Len(batch[c]) \in Nat /\ next \in 1 .. Len(batch[c])
           /\ e = batch[c][next] /\ e \in Element /\ e.id \in Ids
           /\ metrics[e.id] = base[e.id]
           /\ [metrics EXCEPT ![e.id] = Merge(metrics[e.id], e)]
                = MergedFirst(base, batch[c], next)
<1> DEFINE b == batch[c]
<1>1. /\ holder = c /\ b \in Batches /\ next \in Nat \ {0} /\ next <= Len(b)
      /\ metrics = MergedFirst(base, b, next - 1) /\ base \in Table
  BY DEF IInv, TypeOK, Held, InLoop
<1>2. b \in Seq(Element) /\ Distinct(b)
  BY <1>1, MemoryConstants
<1> HIDE DEF b
<1>3. Len(b) \in Nat
  BY <1>2
<1>4. PICK k \in Nat : k + 1 = next
  BY <1>1
<1>5. k < Len(b) /\ next - 1 = k
  BY <1>1, <1>3, <1>4
<1>6. /\ b[k + 1] \in Element /\ b[k + 1].id \in Ids
      /\ MergedFirst(base, b, k)[b[k + 1].id] = base[b[k + 1].id]
      /\ MergedFirst(base, b, k + 1)
            = [MergedFirst(base, b, k) EXCEPT ![b[k + 1].id] =
                  Merge(base[b[k + 1].id], b[k + 1])]
  BY <1>1, <1>2, <1>5, MergedFirstStep
<1>7. QED
  BY <1>1, <1>2, <1>3, <1>4, <1>5, <1>6 DEF Current, b

\* Every step keeps the types.
LEMMA NextTypes == IInv /\ [Next]_vars => TypeOK' /\ Counters'
<1> SUFFICES ASSUME IInv, [Next]_vars PROVE TypeOK' /\ Counters'
  OBVIOUS
<1> USE DEF IInv
<1>1. ASSUME NEW c \in Clients, NEW b \in Batches, Update(c, b)
      PROVE  TypeOK' /\ Counters'
  BY <1>1 DEF Update, Goto, Answer, TypeOK, Updating, Counters
<1>2. ASSUME NEW c \in Clients, Lock(c) PROVE TypeOK' /\ Counters'
  BY <1>2 DEF Lock, Goto, TypeOK, Updating, Counters
<1>3. ASSUME NEW c \in Clients, SetValue(c) PROVE TypeOK' /\ Counters'
  <2> DEFINE e == Current(c)
  <2>1. e \in Element /\ e.id \in Ids
    BY <1>3, SetValueMerges DEF SetValue
  <2>2. /\ metrics' = [metrics EXCEPT ![e.id] = Merge(metrics[e.id], e)]
        /\ ~Mismatch(metrics[e.id], e)
    BY <1>3 DEF SetValue
  <2>3. next' = next + 1 /\ UNCHANGED <<alive, holder, pc, batch, answer, base>>
    BY <1>3 DEF SetValue
  <2> HIDE DEF e
  <2>4. metrics[e.id] \in {NoRow} \cup Row /\ Counts(metrics[e.id])
    BY <2>1 DEF TypeOK, Table, Counters
  <2>5. Merge(metrics[e.id], e) \in Row /\ Counts(Merge(metrics[e.id], e))
    BY <2>1, <2>2, <2>4, MergeIsRow
  <2>6. metrics' \in Table /\ Counters'
    BY <2>1, <2>2, <2>5 DEF TypeOK, Table, Counters
  <2>7. QED
    BY <2>3, <2>6 DEF TypeOK
<1>4. ASSUME NEW c \in Clients, ReturnMismatch(c) \/ Return(c)
      PROVE  TypeOK' /\ Counters'
  BY <1>4 DEF ReturnMismatch, Return, Unlock, Goto, TypeOK, Updating, Counters
<1>5. ASSUME NEW c \in Clients, AnswerUpdate(c) PROVE TypeOK' /\ Counters'
  BY <1>5 DEF AnswerUpdate, Answer, Goto, TypeOK, Counters
<1>6. ASSUME NEW c \in Clients,
             \/ Get(c) \/ Lookup(c) \/ AnswerGet(c) \/ BeginPage(c)
             \/ EndRange(c) \/ AnswerPage(c) \/ ConcurrentMapFatal(c)
      PROVE  TypeOK' /\ Counters'
  BY <1>6 DEF Get, Lookup, AnswerGet, BeginPage, EndRange, AnswerPage,
              ConcurrentMapFatal, Goto, TypeOK, Reading, Counters
<1>7. CASE UNCHANGED vars
  BY <1>7 DEF vars, TypeOK, Counters
<1>8. QED
  BY <1>1, <1>2, <1>3, <1>4, <1>5, <1>6, <1>7
  DEF Next, UpdateMetric, UpdateMetrics, Dead

\* A step of a request that is not in the loop leaves Held alone.
LEMMA AsideHeld ==
    ASSUME IInv, NEW c \in Clients, NEW from, NEW to, Goto(c, from, to),
           from \notin {"locked"}, to \notin {"update", "locked"},
           UNCHANGED <<metrics, holder, batch, next, base>>
    PROVE  Held'
<1>1. /\ pc' \in [Clients -> {pc[d] : d \in Clients} \cup {to}]
      /\ pc[c] = from /\ pc'[c] = to
      /\ \A d \in Clients \ {c} : pc'[d] = pc[d]
  BY DEF Goto, IInv, TypeOK
<1>2. ASSUME NEW d \in Clients
      PROVE  /\ pc'[d] = "locked" <=> pc[d] = "locked"
             /\ pc'[d] \in {"update", "locked"} => pc[d] \in {"update", "locked"}
  BY <1>1
<1>3. QED
  BY <1>2 DEF IInv, Held

\* Held is inductive.
LEMMA NextHeld == IInv /\ [Next]_vars => Held'
<1> SUFFICES ASSUME IInv, [Next]_vars PROVE Held'
  OBVIOUS
<1>1. ASSUME NEW c \in Clients, NEW b \in Batches, Update(c, b) PROVE Held'
  <2>1. /\ pc[c] = "idle" /\ pc'[c] = "update" /\ batch'[c] = b
        /\ \A d \in Clients \ {c} : pc'[d] = pc[d] /\ batch'[d] = batch[d]
        /\ UNCHANGED <<metrics, holder, next, base>>
    BY <1>1 DEF Update, Goto, IInv, TypeOK
  <2>2. QED
    BY <2>1 DEF IInv, Held
<1>2. ASSUME NEW c \in Clients, Lock(c) PROVE Held'
  <2>1. /\ pc[c] = "update" /\ pc'[c] = "locked" /\ holder' = c /\ holder = Nobody
        /\ \A d \in Clients \ {c} : pc'[d] = pc[d]
        /\ UNCHANGED <<metrics, next, batch, base>>
    BY <1>2 DEF Lock, Goto, IInv, TypeOK
  <2>2. /\ batch[c] \in Batches /\ next = 1 /\ metrics = base
        /\ \A d \in Clients : pc[d] # "locked"
    BY <2>1, MemoryConstants DEF IInv, Held
  <2>3. Len(batch[c]) \in Nat
    BY <2>2, MemoryConstants
  <2>4. 1 .. next - 1 = {} /\ next - 1 = 0 /\ next - 1 <= Len(batch[c])
    BY <2>2, <2>3
  <2>5. metrics = MergedFirst(base, batch[c], 0)
    <3>1. base \in [Ids -> {NoRow} \cup Row] /\ 1 .. 0 = {}
      BY DEF IInv, TypeOK, Table
    <3>2. MergedFirst(base, batch[c], 0) = [id \in Ids |-> base[id]]
      BY <3>1 DEF MergedFirst
    <3>3. QED
      BY <2>2, <3>1, <3>2
  <2>6. QED
    BY <2>1, <2>2, <2>4, <2>5, MemoryConstants DEF IInv, Held
<1>3. ASSUME NEW c \in Clients, SetValue(c) PROVE Held'
  <2> DEFINE e == Current(c)
  <2>1. /\ holder = c /\ batch[c] \in Batches /\ Len(batch[c]) \in Nat
        /\ next \in 1 .. Len(batch[c]) /\ e = batch[c][next]
        /\ metrics[e.id] = base[e.id] /\ pc[c] = "locked"
        /\ ~Mismatch(base[e.id], e)
        /\ metrics' = MergedFirst(base, batch[c], next)
    BY <1>3, SetValueMerges DEF SetValue, InLoop
  <2>2. next' = next + 1 /\ UNCHANGED <<holder, pc, batch, base>>
    BY <1>3 DEF SetValue
  <2> HIDE DEF e
  <2>3. next' - 1 = next /\ 1 .. next = (1 .. next - 1) \cup {next}
    BY <2>1, <2>2
  <2>4. \A i \in 1 .. next : ~Mismatch(base[batch[c][i].id], batch[c][i])
    <3>1. \A i \in 1 .. next - 1 : ~Mismatch(base[batch[c][i].id], batch[c][i])
      BY <2>1 DEF IInv, Held
    <3>2. QED
      BY <2>1, <2>3, <3>1
  <2>5. \A d \in Clients : pc[d] = "locked" => d = c
    BY <2>1 DEF IInv, Held
  <2>6. holder # Nobody
    BY <2>1, MemoryConstants
  <2>7. /\ next' - 1 <= Len(batch'[c])
        /\ metrics' = MergedFirst(base', batch'[c], next' - 1)
        /\ \A i \in 1 .. next' - 1 :
              ~Mismatch(base'[batch'[c][i].id], batch'[c][i])
    BY <2>1, <2>2, <2>3, <2>4
  <2>8. /\ \A d \in Clients : pc'[d] \in {"update", "locked"} => batch'[d] \in Batches
        /\ \A d \in Clients : pc'[d] = "locked" <=> holder' = d
    BY <2>2 DEF IInv, Held
  <2>9. QED
    BY <2>2, <2>5, <2>6, <2>7, <2>8 DEF Held
<1>4. ASSUME NEW c \in Clients, ReturnMismatch(c) \/ Return(c) PROVE Held'
  <2>1. /\ pc[c] = "locked" /\ pc'[c] \in {"applied", "failed"}
        /\ holder' = Nobody /\ next' = 1 /\ base' = metrics
        /\ \A d \in Clients \ {c} : pc'[d] = pc[d]
        /\ UNCHANGED <<metrics, batch>>
    BY <1>4 DEF ReturnMismatch, Return, Unlock, Goto, IInv, TypeOK
  <2>2. \A d \in Clients : pc'[d] # "locked"
    BY <2>1 DEF IInv, Held
  <2>3. QED
    BY <2>1, <2>2, MemoryConstants DEF IInv, Held
<1>5. ASSUME NEW c \in Clients, AnswerUpdate(c) PROVE Held'
  <2>1. CASE Goto(c, "applied", "idle")
    BY <1>5, <2>1, AsideHeld DEF AnswerUpdate
  <2>2. CASE Goto(c, "failed", "idle")
    BY <1>5, <2>2, AsideHeld DEF AnswerUpdate
  <2>3. QED
    BY <1>5, <2>1, <2>2 DEF AnswerUpdate
<1>6. ASSUME NEW c \in Clients,
             \/ Get(c) \/ Lookup(c) \/ AnswerGet(c) \/ BeginPage(c)
             \/ EndRange(c) \/ AnswerPage(c)
      PROVE  Held'
  <2>1. /\ UNCHANGED <<metrics, holder, batch, next, base>>
        /\ \/ Goto(c, "idle", "get") \/ Goto(c, "get", "found")
           \/ Goto(c, "get", "missing") \/ Goto(c, "found", "idle")
           \/ Goto(c, "missing", "idle") \/ Goto(c, "idle", "range")
           \/ Goto(c, "range", "render") \/ Goto(c, "render", "idle")
    BY <1>6 DEF Get, Lookup, AnswerGet, BeginPage, EndRange, AnswerPage
  <2>2. ASSUME NEW from \in {"idle", "get", "found", "missing", "range", "render"},
               NEW to \in {"idle", "get", "found", "missing", "range", "render"},
               Goto(c, from, to)
        PROVE  Held'
    <3>1. from # "locked" /\ to # "locked" /\ to # "update"
      OBVIOUS
    <3>2. QED
      BY <2>1, <2>2, <3>1, AsideHeld
  <2>3. QED
    BY <2>1, <2>2
<1>7. ASSUME NEW c \in Clients, ConcurrentMapFatal(c) PROVE Held'
  BY <1>7 DEF ConcurrentMapFatal, IInv, Held
<1>8. CASE UNCHANGED vars
  BY <1>8 DEF vars, IInv, Held
<1>9. QED
  BY <1>1, <1>2, <1>3, <1>4, <1>5, <1>6, <1>7, <1>8
  DEF Next, UpdateMetric, UpdateMetrics, Dead

\* The invariant holds in every reachable state.
LEMMA MemoryInvariant == Spec => []IInv
<1>1. Init => IInv
  <2> SUFFICES ASSUME Init PROVE IInv
    OBVIOUS
  <2>1. TypeOK
    BY DEF Init, TypeOK, Table
  <2>2. Counters /\ Held
    BY MemoryConstants DEF Init, Counters, Counts, Held
  <2>3. QED
    BY <2>1, <2>2 DEF IInv
<1>2. IInv /\ [Next]_vars => IInv'
  BY NextTypes, NextHeld DEF IInv
<1>3. QED
  BY <1>1, <1>2, PTL DEF Spec

\* Whatever is sent, a counter stays an int64, also when it wraps around, and
\* a row has the type and value of a metric (TypeOK).
THEOREM MemoryTypes == Spec => []TypeOK
<1>1. IInv => TypeOK
  BY DEF IInv
<1>2. QED
  BY <1>1, MemoryInvariant, PTL

-----------------------------------------------------------------------------
(* Batches *)

\* Only the loop changes the metrics, one at a time.
LEMMA MetricsChange ==
    ASSUME [Next]_vars
    PROVE  metrics' = metrics \/ \E c \in Clients : SetValue(c)
BY DEF Next, vars, UpdateMetric, UpdateMetrics, Update, Lock, ReturnMismatch,
       Return, AnswerUpdate, Get, Lookup, AnswerGet, BeginPage, EndRange,
       AnswerPage, ConcurrentMapFatal, Dead

\* A batch that is being applied changes a metric once, and nothing changes
\* between batches (OneChangePerBatch).
THEOREM OneChangePerBatchTheorem == Spec => OneChangePerBatch
<1>1. IInv /\ [Next]_vars =>
        [\A id \in Ids : metrics'[id] # metrics[id] =>
            holder # Nobody /\ metrics[id] = base[id]]_vars
  <2> SUFFICES ASSUME IInv, [Next]_vars, NEW id \in Ids,
                      metrics'[id] # metrics[id]
               PROVE  holder # Nobody /\ metrics[id] = base[id]
    OBVIOUS
  <2>1. PICK c \in Clients : SetValue(c)
    BY MetricsChange
  <2> DEFINE e == Current(c)
  <2>2. /\ holder = c /\ e.id \in Ids /\ metrics[e.id] = base[e.id]
        /\ metrics' = [metrics EXCEPT ![e.id] = Merge(metrics[e.id], e)]
    BY <2>1, SetValueMerges DEF SetValue
  <2> HIDE DEF e
  <2>3. id = e.id
    BY <2>2 DEF IInv, TypeOK, Table
  <2>4. QED
    BY <2>2, <2>3, MemoryConstants
<1>2. QED
  BY <1>1, MemoryInvariant, PTL DEF Spec, OneChangePerBatch

\* The operators of PrefixBatches are those of the memory storage.
LEMMA SameRows ==
    ASSUME NEW t, NEW b, NEW k
    PROVE  /\ Prefix!StopsAfter(t, b, k) <=> StopsAfter(t, b, k)
           /\ Prefix!MergedFirst(t, b, k) = MergedFirst(t, b, k)
<1>1. ASSUME NEW row, NEW e
      PROVE  /\ Prefix!Mismatch(row, e) <=> Mismatch(row, e)
             /\ Prefix!Merge(row, e) = Merge(row, e)
  BY DEF Prefix!Mismatch, Mismatch, Prefix!Merge, Merge, Prefix!Wrap, Wrap
<1>2. QED
  BY <1>1 DEF Prefix!StopsAfter, StopsAfter, Prefix!MergedFirst, MergedFirst

\* A step that leaves the loop leaves exactly the first elements of the batch.
LEMMA LeavingIsPrefix ==
    ASSUME IInv, NEW c \in Clients, ReturnMismatch(c) \/ Return(c)
    PROVE  /\ next - 1 \in 0 .. Len(batch[c])
           /\ StopsAfter(base, batch[c], next - 1)
           /\ metrics = MergedFirst(base, batch[c], next - 1)
           /\ Return(c) <=> next - 1 = Len(batch[c])
<1>1. pc[c] = "locked"
  BY DEF ReturnMismatch, Return, Goto
<1>2. /\ batch[c] \in Batches /\ next \in Nat \ {0} /\ next - 1 <= Len(batch[c])
      /\ metrics = MergedFirst(base, batch[c], next - 1)
      /\ \A i \in 1 .. next - 1 : ~Mismatch(base[batch[c][i].id], batch[c][i])
  BY <1>1 DEF IInv, TypeOK, Held
<1>3. Len(batch[c]) \in Nat
  BY <1>2, MemoryConstants
<1>4. ASSUME ReturnMismatch(c)
      PROVE  /\ next - 1 < Len(batch[c])
             /\ Mismatch(base[batch[c][next].id], batch[c][next])
  <2>1. InLoop(c) /\ Mismatch(metrics[batch[c][next].id], batch[c][next])
    BY <1>4 DEF ReturnMismatch, Current
  <2>2. /\ next \in 1 .. Len(batch[c])
        /\ metrics[batch[c][next].id] = base[batch[c][next].id]
    BY <2>1, SetValueMerges DEF Current
  <2>3. QED
    BY <1>3, <2>1, <2>2
<1>5. ASSUME Return(c) PROVE next - 1 = Len(batch[c])
  BY <1>2, <1>3, <1>5 DEF Return
<1>6. (next - 1) + 1 = next
  BY <1>2
<1>7. QED
  BY <1>2, <1>3, <1>4, <1>5, <1>6 DEF StopsAfter

\* A step begins, applies or answers an update, or is silent.
LEMMA StepIsPrefix ==
    IInv /\ [Next]_vars => [Prefix!Next]_<<base, Calls, batch, answer>>
<1> SUFFICES ASSUME IInv, [Next]_vars
             PROVE  Prefix!Next \/ UNCHANGED <<base, Calls, batch, answer>>
  OBVIOUS
<1>move. ASSUME NEW c \in Clients, NEW from, NEW to, Goto(c, from, to)
         PROVE  /\ Calls[c] = CallState(from)
                /\ Calls' = [Calls EXCEPT ![c] = CallState(to)]
  <2>1. /\ pc[c] = from /\ pc'[c] = to
        /\ \A d \in Clients \ {c} : pc'[d] = pc[d]
    BY <1>move DEF Goto, IInv, TypeOK
  <2>2. QED
    BY <2>1 DEF Calls
<1>names. /\ CallState("idle") = "idle" /\ CallState("update") = "open"
          /\ CallState("locked") = "open" /\ CallState("applied") = "applied"
          /\ CallState("failed") = "failed"
          /\ \A state \in Reading : CallState(state) = "idle"
  BY DEF CallState, Reading
<1>1. ASSUME NEW c \in Clients, NEW b \in Batches, Update(c, b)
      PROVE  Prefix!Begin(c)
  <2>1. Calls[c] = "idle" /\ Calls' = [Calls EXCEPT ![c] = "open"]
    BY <1>1, <1>move, <1>names DEF Update
  <2>2. QED
    BY <1>1, <2>1 DEF Update, Answer, Prefix!Begin
<1>2. ASSUME NEW c \in Clients, Lock(c)
      PROVE  UNCHANGED <<base, Calls, batch, answer>>
  <2>1. Calls[c] = "open" /\ Calls' = [Calls EXCEPT ![c] = "open"]
    BY <1>2, <1>move, <1>names DEF Lock
  <2>2. Calls' = Calls
    BY <2>1 DEF Calls
  <2>3. QED
    BY <1>2, <2>2 DEF Lock
<1>3. ASSUME NEW c \in Clients, SetValue(c)
      PROVE  UNCHANGED <<base, Calls, batch, answer>>
  BY <1>3 DEF SetValue, Calls
<1>4. ASSUME NEW c \in Clients, ReturnMismatch(c) PROVE Prefix!Apply(c)
  <2>1. Calls[c] = "open" /\ Calls' = [Calls EXCEPT ![c] = "failed"]
    BY <1>4, <1>move, <1>names DEF ReturnMismatch
  <2>2. ASSUME NEW k, k = next - 1 PROVE Prefix!Apply(c)
    <3>1. /\ k \in 0 .. Len(batch[c]) /\ k # Len(batch[c])
          /\ Prefix!StopsAfter(base, batch[c], k)
          /\ metrics = Prefix!MergedFirst(base, batch[c], k)
      <4>1. ~Return(c)
        BY <1>4 DEF ReturnMismatch, Return, Goto, IInv, TypeOK
      <4>2. QED
        BY <1>4, <2>2, <4>1, LeavingIsPrefix, SameRows
    <3>2. base' = metrics /\ UNCHANGED <<batch, answer>>
      BY <1>4 DEF ReturnMismatch, Unlock
    <3>3. QED
      BY <2>1, <3>1, <3>2 DEF Prefix!Apply
  <2>3. QED
    BY <2>2
<1>5. ASSUME NEW c \in Clients, Return(c) PROVE Prefix!Apply(c)
  <2>1. Calls[c] = "open" /\ Calls' = [Calls EXCEPT ![c] = "applied"]
    BY <1>5, <1>move, <1>names DEF Return
  <2>2. ASSUME NEW k, k = next - 1 PROVE Prefix!Apply(c)
    <3>1. /\ k \in 0 .. Len(batch[c]) /\ k = Len(batch[c])
          /\ Prefix!StopsAfter(base, batch[c], k)
          /\ metrics = Prefix!MergedFirst(base, batch[c], k)
      BY <1>5, <2>2, LeavingIsPrefix, SameRows
    <3>2. base' = metrics /\ UNCHANGED <<batch, answer>>
      BY <1>5 DEF Return, Unlock
    <3>3. QED
      BY <2>1, <3>1, <3>2 DEF Prefix!Apply
  <2>3. QED
    BY <2>2
<1>6. ASSUME NEW c \in Clients, AnswerUpdate(c) PROVE Prefix!Answer(c)
  <2>1. CASE Goto(c, "applied", "idle") /\ Answer(c, "ok")
    <3>1. Calls[c] = "applied" /\ Calls' = [Calls EXCEPT ![c] = "idle"]
      BY <2>1, <1>move, <1>names
    <3>2. QED
      BY <1>6, <2>1, <3>1 DEF AnswerUpdate, Answer, Prefix!Answer
  <2>2. CASE Goto(c, "failed", "idle") /\ Answer(c, "error")
    <3>1. Calls[c] = "failed" /\ Calls' = [Calls EXCEPT ![c] = "idle"]
      BY <2>2, <1>move, <1>names
    <3>2. QED
      BY <1>6, <2>2, <3>1 DEF AnswerUpdate, Answer, Prefix!Answer
  <2>3. QED
    BY <1>6, <2>1, <2>2 DEF AnswerUpdate
<1>7. ASSUME NEW c \in Clients,
             \/ Get(c) \/ Lookup(c) \/ AnswerGet(c) \/ BeginPage(c)
             \/ EndRange(c) \/ AnswerPage(c)
      PROVE  UNCHANGED <<base, Calls, batch, answer>>
  <2>1. PICK from \in {"idle"} \cup Reading, to \in {"idle"} \cup Reading :
           Goto(c, from, to)
    BY <1>7 DEF Get, Lookup, AnswerGet, BeginPage, EndRange, AnswerPage, Reading
  <2>2. Calls[c] = "idle" /\ Calls' = [Calls EXCEPT ![c] = "idle"]
    BY <2>1, <1>move, <1>names
  <2>3. Calls' = Calls
    BY <2>2 DEF Calls
  <2>4. QED
    BY <1>7, <2>3
    DEF Get, Lookup, AnswerGet, BeginPage, EndRange, AnswerPage
<1>8. ASSUME NEW c \in Clients, ConcurrentMapFatal(c)
      PROVE  UNCHANGED <<base, Calls, batch, answer>>
  BY <1>8 DEF ConcurrentMapFatal, Calls
<1>9. ASSUME UNCHANGED vars PROVE UNCHANGED <<base, Calls, batch, answer>>
  BY <1>9 DEF vars, Calls
<1>10. QED
  BY <1>1, <1>2, <1>3, <1>4, <1>5, <1>6, <1>7, <1>8, <1>9
  DEF Next, UpdateMetric, UpdateMetrics, Dead, Prefix!Next

\* The memory storage applies batches one at a time, keeps exactly what comes
\* before the first metric of another type, and says "ok" only when there is
\* none (PrefixSpec).
THEOREM MemoryKeepsPrefixes == Spec => PrefixSpec
<1>1. Init => Prefix!Init
  BY DEF Init, Prefix!Init, Calls, CallState
<1>2. QED
  BY <1>1, StepIsPrefix, MemoryInvariant, PTL DEF Spec, PrefixSpec, Prefix!Spec

-----------------------------------------------------------------------------
(* What a sound stream of updates is spared *)

\* In the loop, the current metric is one of the batch.
LEMMA CurrentIsOfBatch ==
    ASSUME IInv, NEW c \in Clients, InLoop(c)
    PROVE  /\ batch[c] \in Batches /\ next \in DOMAIN batch[c]
           /\ Current(c) = batch[c][next] /\ Current(c).id \in Ids
<1>1. /\ batch[c] \in Batches /\ batch[c] \in Seq(Element)
      /\ next \in 1 .. Len(batch[c]) /\ Current(c).id \in Ids
  BY SetValueMerges
<1>2. DOMAIN batch[c] = 1 .. Len(batch[c])
  BY <1>1
<1>3. QED
  BY <1>1, <1>2 DEF Current

\* SetValue changes one metric, into a row of the same type if there was one.
LEMMA SetValueKeepsType ==
    ASSUME IInv, NEW c \in Clients, SetValue(c)
    PROVE  LET e == Current(c) IN
           /\ batch[c] \in Batches /\ next \in DOMAIN batch[c]
           /\ e = batch[c][next] /\ e.id \in Ids
           /\ metrics'[e.id] \in Row
           /\ metrics'[e.id].type = IF metrics[e.id] = NoRow THEN e.type
                                    ELSE metrics[e.id].type
           /\ \A id \in Ids \ {e.id} : metrics'[id] = metrics[id]
<1> DEFINE e == Current(c)
<1>1. /\ batch[c] \in Batches /\ batch[c] \in Seq(Element)
      /\ next \in 1 .. Len(batch[c])
      /\ e = batch[c][next] /\ e \in Element /\ e.id \in Ids
  BY SetValueMerges DEF SetValue
<1>2. /\ ~Mismatch(metrics[e.id], e)
      /\ metrics' = [metrics EXCEPT ![e.id] = Merge(metrics[e.id], e)]
  BY DEF SetValue
<1>3. metrics \in Table /\ Counts(metrics[e.id])
  BY <1>1 DEF IInv, TypeOK, Counters
<1> HIDE DEF e
<1>4. metrics[e.id] \in {NoRow} \cup Row
  BY <1>1, <1>3 DEF Table
<1>5. Merge(metrics[e.id], e) \in Row
  BY <1>1, <1>2, <1>3, <1>4, MergeIsRow
<1>6. Merge(metrics[e.id], e).type = IF metrics[e.id] = NoRow THEN e.type
                                     ELSE metrics[e.id].type
  BY <1>4 DEF Merge, Row
<1>7. /\ metrics'[e.id] = Merge(metrics[e.id], e)
      /\ \A id \in Ids \ {e.id} : metrics'[id] = metrics[id]
  BY <1>1, <1>2, <1>3 DEF Table
<1>8. QED
  BY <1>1, <1>5, <1>6, <1>7 DEF e

\* If every name is sent with one type only, no update of the memory storage
\* fails, however the batches interleave: another type is its only error
\* (memstorage.go:72-79).
THEOREM UniformUpdatesSucceed ==
    ASSUME NEW kind,
           \A b \in Batches : \A i \in DOMAIN b : b[i].type = kind[b[i].id]
    PROVE  Spec => [](\A c \in Clients : pc[c] # "failed" /\ answer[c] # "error")
<1> DEFINE Kept == \A id \in Ids :
                      metrics[id] # NoRow => metrics[id].type = kind[id]
           Good == \A c \in Clients : pc[c] # "failed" /\ answer[c] # "error"
<1>1. Init => Kept /\ Good
  BY DEF Init
<1>2. ASSUME IInv, Kept, [Next]_vars PROVE Kept'
  <2>1. CASE metrics' = metrics
    BY <1>2, <2>1
  <2>2. ASSUME NEW c \in Clients, SetValue(c) PROVE Kept'
    <3> DEFINE e == Current(c)
    <3>1. e.type = kind[e.id]
      BY <1>2, <2>2, SetValueKeepsType
    <3>2. QED
      BY <1>2, <2>2, <3>1, SetValueKeepsType
  <2>3. QED
    BY <1>2, <2>1, <2>2, MetricsChange
<1>3. ASSUME IInv, Kept, NEW c \in Clients, InLoop(c)
      PROVE  ~Mismatch(metrics[Current(c).id], Current(c))
  <2> DEFINE e == Current(c)
  <2>1. e.type = kind[e.id] /\ e.id \in Ids
    <3>1. batch[c] \in Batches /\ next \in DOMAIN batch[c] /\ e = batch[c][next]
          /\ e.id \in Ids
      BY <1>3, CurrentIsOfBatch
    <3>2. QED
      BY <3>1
  <2>2. QED
    BY <1>3, <2>1 DEF Mismatch
<1>4. ASSUME IInv, Kept, Good, [Next]_vars PROVE Good'
  <2>1. ASSUME NEW c \in Clients, NEW from, NEW to, to # "failed",
               Goto(c, from, to),
               \/ UNCHANGED answer
               \/ Answer(c, "none") \/ Answer(c, "ok")
        PROVE  Good'
    BY <1>4, <2>1 DEF Goto, Answer, IInv, TypeOK
  <2>2. ASSUME NEW c \in Clients, ReturnMismatch(c) PROVE FALSE
    BY <1>3, <1>4, <2>2 DEF ReturnMismatch
  <2>3. ASSUME NEW c \in Clients, AnswerUpdate(c) PROVE Good'
    BY <1>4, <2>1, <2>3 DEF AnswerUpdate, Goto
  <2>4. ASSUME UNCHANGED <<pc, answer>> PROVE Good'
    BY <1>4, <2>4
  <2>5. QED
    BY <1>4, <2>1, <2>2, <2>3, <2>4
    DEF Next, vars, UpdateMetric, UpdateMetrics, Update, Lock, SetValue,
        Return, Get, Lookup, AnswerGet, BeginPage, EndRange, AnswerPage,
        ConcurrentMapFatal, Dead
<1> HIDE DEF Kept, Good
<1>5. Spec => []Good
  BY <1>1, <1>2, <1>4, MemoryInvariant, PTL DEF Spec
<1>6. QED
  BY <1>5 DEF Good

\* Every name that is ever sent is stored.
AllStored ==
    \A b \in Batches : \A i \in DOMAIN b : metrics[b[i].id] # NoRow

\* Once every name was stored, the page cannot end the process any more:
\* metrics are never removed, and only an insert disturbs the range
\* (memstorage.go:91, PageIsServed).
THEOREM StoredNamesKeepThePage == Spec => [](AllStored /\ alive => []PageIsServed)
<1>1. ASSUME IInv, [Next]_vars, AllStored, alive PROVE AllStored' /\ alive'
  <2>1. ASSUME NEW c \in Clients, ConcurrentMapFatal(c) PROVE FALSE
    <3>1. batch[c] \in Batches /\ next \in DOMAIN batch[c]
          /\ Current(c) = batch[c][next]
      BY <1>1, <2>1, CurrentIsOfBatch DEF ConcurrentMapFatal
    <3>2. QED
      BY <1>1, <2>1, <3>1 DEF ConcurrentMapFatal, AllStored
  <2>2. alive'
    BY <1>1, <2>1
    DEF Next, vars, UpdateMetric, UpdateMetrics, Update, Lock, SetValue,
        ReturnMismatch, Return, AnswerUpdate, Get, Lookup, AnswerGet,
        BeginPage, EndRange, AnswerPage, Dead
  <2>3. ASSUME NEW c \in Clients, SetValue(c) PROVE AllStored'
    <3>1. ASSUME NEW id \in Ids, metrics[id] # NoRow PROVE metrics'[id] # NoRow
      BY <1>1, <2>3, <3>1, SetValueKeepsType, RowConstants
    <3>2. ASSUME NEW b \in Batches, NEW i \in DOMAIN b PROVE b[i].id \in Ids
      <4>1. b \in Seq(Element)
        BY MemoryConstants
      <4>2. b[i] \in Element
        BY <4>1
      <4>3. QED
        BY <4>2 DEF Element
    <3>3. QED
      BY <1>1, <3>1, <3>2 DEF AllStored
  <2>4. AllStored'
    BY <1>1, <2>3, MetricsChange DEF AllStored
  <2>5. QED
    BY <2>2, <2>4
<1>2. alive => PageIsServed
  BY DEF PageIsServed
<1>3. QED
  BY <1>1, <1>2, MemoryInvariant, PTL DEF Spec
=============================================================================
