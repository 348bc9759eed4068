------------------------ MODULE DatabaseStoreProofs ------------------------
(* Theorems about DatabaseStore, for any metrics, clients and batches. *)
EXTENDS DatabaseStore, WellFoundedInduction, TLAPS

-----------------------------------------------------------------------------
(* Rows *)

\* A statement that is not refused leaves a row.
LEMMA UpsertIsRow ==
    ASSUME NEW row \in {NoRow} \cup Row, NEW e \in Element, ~Refused(row, e)
    PROVE  Upsert(row, e) \in Row
<1> USE RowConstants DEF Row, Element, Value, Int64, Types
<1>1. CASE row = NoRow
  BY <1>1 DEF Upsert
<1>2. CASE row # NoRow /\ e.type = "gauge"
  BY <1>2 DEF Upsert
<1>3. CASE row # NoRow /\ e.type = "counter"
  <2>1. row.value + e.value \in Int64
    BY <1>3 DEF Refused
  <2>2. QED
    BY <1>3, <2>1 DEF Upsert
<1>4. QED
  BY <1>1, <1>2, <1>3

\* The statements of a batch are elements.
LEMMA StatementIsElement ==
    ASSUME TypeOK, NEW c \in Clients
    PROVE  /\ batch[c] \in Seq(Element) /\ Len(batch[c]) \in Nat
           /\ next[c] \in Nat /\ 1 <= next[c] /\ next[c] <= Len(batch[c]) + 1
           /\ \A i \in 1 .. Len(batch[c]) : batch[c][i] \in Element
           /\ \A i \in 1 .. Len(batch[c]) : batch[c][i].id \in Ids
<1>1. batch[c] \in Seq(Element)
  <2>1. batch[c] \in Batches \/ batch[c] = <<>>
    BY DEF TypeOK
  <2>2. <<>> \in Seq(Element)
    OBVIOUS
  <2>3. QED
    BY <2>1, <2>2, BatchConstants
<1>2. /\ Len(batch[c]) \in Nat
      /\ \A i \in 1 .. Len(batch[c]) : batch[c][i] \in Element
  BY <1>1
<1>3. \A e \in Element : e.id \in Ids
  BY DEF Element
<1>4. next[c] \in Nat /\ next[c] \in 1 .. Len(batch[c]) + 1
  BY DEF TypeOK
<1>5. QED
  BY <1>1, <1>2, <1>3, <1>4

-----------------------------------------------------------------------------
(* Types *)

Methods == {"SetOrUpdateMetric", "SetOrUpdateMetricBatch"}

\* Every step keeps the types.
LEMMA NextTypes == TypeOK /\ [Next]_vars => TypeOK'
<1> SUFFICES ASSUME TypeOK, [Next]_vars PROVE TypeOK'
  OBVIOUS
<1> USE DEF session
<1>1. ASSUME NEW c \in Clients, NEW b \in Batches, NEW m \in Methods, Begin(c, b, m)
      PROVE  TypeOK'
  <2>1. Len(b) \in Nat
    BY BatchConstants
  <2>2. \A d \in Clients : next'[d] \in 1 .. Len(batch'[d]) + 1
    BY <1>1, <2>1 DEF Begin, TypeOK
  <2>3. next' \in [Clients -> Nat]
    BY <1>1 DEF Begin, TypeOK
  <2>4. QED
    BY <1>1, <2>2, <2>3 DEF Begin, TypeOK, Methods
<1>2. ASSUME NEW c \in Clients, Exec(c) PROVE TypeOK'
  <2> DEFINE e == Statement(c)
  <2>1. e \in Element /\ e.id \in Ids /\ next[c] + 1 \in 1 .. Len(batch[c]) + 1
    BY <1>2, StatementIsElement DEF Exec, Granted, Statement
  <2>2. newest' = [newest EXCEPT ![e.id] = Upsert(newest[e.id], e)]
    BY <1>2, <2>1 DEF Exec, TypeOK, Table
  <2>3. Upsert(newest[e.id], e) \in Row
    BY <1>2, <2>1, UpsertIsRow DEF Exec, TypeOK, Table
  <2>4. lock' = [lock EXCEPT ![e.id] = c] /\ next' = [next EXCEPT ![c] = @ + 1]
        /\ UNCHANGED <<table, pc, batch, method, answer>>
    BY <1>2 DEF Exec
  <2> HIDE DEF e
  <2>5. newest' \in Table
    BY <2>2, <2>3 DEF TypeOK, Table
  <2>6. next' \in [Clients -> Nat]
        /\ \A d \in Clients : next'[d] \in 1 .. Len(batch'[d]) + 1
    BY <2>1, <2>4 DEF TypeOK
  <2>7. QED
    BY <2>4, <2>5, <2>6 DEF TypeOK
<1>3. ASSUME NEW c \in Clients, NEW o \in {"aborted", "lost"}, Abort(c, o)
      PROVE  TypeOK'
  BY <1>3 DEF Abort, Unlock, Ended, TypeOK, Table
<1>4. ASSUME NEW c \in Clients, Commit(c) PROVE TypeOK'
  BY <1>4 DEF Commit, Unlock, Ended, TypeOK, Table
<1>5. ASSUME NEW c \in Clients, Answer(c) \/ AnswerEarly(c) PROVE TypeOK'
  <2>1. \A p \in {"committed", "aborted", "lost"} : Heard[p] \subseteq {"ok", "error"}
    BY DEF Heard
  <2>2. \E said \in {"ok", "error"} : answer' = [answer EXCEPT ![c] = said]
    BY <1>5, <2>1 DEF Answer, AnswerEarly
  <2>3. answer' \in [Clients -> {"none", "ok", "error"}]
    BY <2>2 DEF TypeOK
  <2>4. QED
    BY <1>5, <2>3 DEF Answer, AnswerEarly, TypeOK
<1>6. CASE UNCHANGED vars
  BY <1>6 DEF vars, TypeOK
<1>7. QED
  BY <1>1, <1>2, <1>3, <1>4, <1>5, <1>6
  DEF Next, Methods, UpdateMetric, UpdateMetrics, ExecFails, ConnectionLost,
      DeadlockAbort

\* Whatever is sent and however statements fail, a row holds a type and a
\* value of that table, and a transaction runs no more than its statements
\* (TypeOK).
THEOREM DatabaseTypes == Spec => []TypeOK
<1>1. Init => TypeOK
  <2> SUFFICES ASSUME Init PROVE TypeOK
    OBVIOUS
  <2>1. \A c \in Clients : next[c] = 1 /\ batch[c] = <<>>
    BY DEF Init
  <2>2. Len(<<>>) = 0
    OBVIOUS
  <2>3. \A c \in Clients : next[c] \in 1 .. Len(batch[c]) + 1
    BY <2>1, <2>2
  <2>4. QED
    BY <2>3 DEF Init, TypeOK, Table
<1>2. QED
  BY <1>1, NextTypes, PTL DEF Spec

-----------------------------------------------------------------------------
(* Locks *)

\* What transaction c has done to the i-th row of its batch.
Written(c, i) ==
    LET e == batch[c][i] IN
    /\ lock[e.id] = c
    /\ ~Refused(table[e.id], e)
    /\ newest[e.id] = Upsert(table[e.id], e)

\* A transaction holds exactly the rows it has written, and a row that is not
\* locked has no version that is not committed.
Locks ==
    /\ \A id \in Ids : lock[id] = Nobody => newest[id] = table[id]
    /\ \A id \in Ids : \A c \in Clients : lock[id] = c =>
          Active(c) /\ \E i \in 1 .. next[c] - 1 : batch[c][i].id = id
    /\ \A c \in Clients : Active(c) =>
          batch[c] \in Batches /\ \A i \in 1 .. next[c] - 1 : Written(c, i)

\* Locks is inductive.
LEMMA NextLocks == TypeOK /\ Locks /\ [Next]_vars => Locks'
<1> SUFFICES ASSUME TypeOK, Locks, [Next]_vars PROVE Locks'
  OBVIOUS
<1> USE DEF session
<1>1. ASSUME NEW c \in Clients, NEW b \in Batches, NEW m \in Methods, Begin(c, b, m)
      PROVE  Locks'
  <2>1. \A id \in Ids : lock[id] # c
    BY <1>1 DEF Begin, Locks, Active
  <2>2. UNCHANGED <<table, newest, lock>> /\ next'[c] = 1 /\ batch'[c] = b
        /\ Active(c)'
    BY <1>1 DEF Begin, TypeOK, Active
  <2>3. \A d \in Clients \ {c} :
           next'[d] = next[d] /\ batch'[d] = batch[d] /\ (Active(d)' <=> Active(d))
    BY <1>1 DEF Begin, TypeOK, Active
  <2>4. QED
    BY <2>1, <2>2, <2>3 DEF Locks, Written
<1>2. ASSUME NEW c \in Clients, Exec(c) PROVE Locks'
  <2> DEFINE e == Statement(c)
  <2>1. /\ e \in Element /\ e.id \in Ids /\ next[c] \in Nat
        /\ e = batch[c][next[c]] /\ next[c] \in 1 .. Len(batch[c])
        /\ Active(c) /\ lock[e.id] \in {c, Nobody} /\ ~Refused(newest[e.id], e)
    BY <1>2, StatementIsElement DEF Exec, Granted, Statement
  <2>2. /\ newest' = [newest EXCEPT ![e.id] = Upsert(newest[e.id], e)]
        /\ lock' = [lock EXCEPT ![e.id] = c]
        /\ next' = [next EXCEPT ![c] = @ + 1]
        /\ UNCHANGED <<table, pc, batch, method, answer>>
    BY <1>2, <2>1 DEF Exec, TypeOK, Table
  <2> HIDE DEF e
  <2>3. \A i \in 1 .. next[c] - 1 : batch[c][i].id # e.id
    <3>1. batch[c] \in Batches /\ DOMAIN batch[c] = 1 .. Len(batch[c])
      BY <2>1, StatementIsElement DEF Locks
    <3>2. \A i, j \in 1 .. Len(batch[c]) : batch[c][i].id = batch[c][j].id => i = j
      BY <3>1, BatchConstants DEF Distinct
    <3>3. Len(batch[c]) \in Nat
      BY StatementIsElement
    <3>4. QED
      BY <2>1, <3>2, <3>3
  <2>4. lock[e.id] = Nobody /\ newest[e.id] = table[e.id]
    BY <2>1, <2>3 DEF Locks
  <2>5. /\ lock'[e.id] = c /\ newest'[e.id] = Upsert(table[e.id], e)
        /\ \A id \in Ids \ {e.id} : lock'[id] = lock[id] /\ newest'[id] = newest[id]
        /\ next'[c] = next[c] + 1
        /\ \A d \in Clients \ {c} : next'[d] = next[d]
        /\ \A d \in Clients : Active(d)' <=> Active(d)
    BY <2>1, <2>2, <2>4 DEF TypeOK, Table, Active
  <2>6. ASSUME NEW id \in Ids, lock'[id] = Nobody PROVE newest'[id] = table'[id]
    BY <2>2, <2>5, <2>6, BatchConstants DEF Locks
  <2>7. ASSUME NEW id \in Ids, NEW d \in Clients, lock'[id] = d
        PROVE  Active(d)' /\ \E i \in 1 .. next'[d] - 1 : batch'[d][i].id = id
    <3>1. CASE id = e.id
      <4>1. d = c /\ next[c] \in 1 .. next'[c] - 1
        BY <2>1, <2>5, <2>7, <3>1
      <4>2. QED
        BY <2>1, <2>2, <2>5, <3>1, <4>1
    <3>2. CASE id # e.id
      <4>1. Active(d) /\ \E i \in 1 .. next[d] - 1 : batch[d][i].id = id
        BY <2>5, <2>7, <3>2 DEF Locks
      <4>2. next[d] \in Nat /\ 1 .. next[d] - 1 \subseteq 1 .. next'[d] - 1
        <5>1. next[d] \in Nat /\ next'[d] \in Nat /\ next[d] <= next'[d]
          BY <2>1, <2>5, StatementIsElement
        <5>2. QED
          BY <5>1
      <4>3. QED
        BY <2>2, <2>5, <4>1, <4>2
    <3>3. QED
      BY <3>1, <3>2
  <2>8. ASSUME NEW d \in Clients, Active(d)'
        PROVE  batch'[d] \in Batches /\ \A i \in 1 .. next'[d] - 1 : Written(d, i)'
    <3>1. Active(d) /\ batch'[d] \in Batches
      BY <2>2, <2>5, <2>8 DEF Locks
    <3>2. ASSUME NEW i \in 1 .. next[d] - 1 PROVE Written(d, i)'
      <4>1. Written(d, i) /\ batch[d][i].id \in Ids
        BY <3>1, <3>2, StatementIsElement DEF Locks
      <4>2. batch[d][i].id # e.id
        BY <2>4, <4>1, BatchConstants DEF Written
      <4>3. QED
        BY <2>2, <2>5, <4>1, <4>2 DEF Written
    <3>3. CASE d # c
      BY <2>5, <3>1, <3>2, <3>3
    <3>4. CASE d = c
      <4>1. ASSUME NEW i \in Nat, i = next[c] PROVE Written(c, i)'
        <5>1. batch'[c][i] = e
          BY <2>1, <2>2, <4>1
        <5>2. ~Refused(table[e.id], e)
          BY <2>1, <2>4
        <5>3. QED
          BY <2>2, <2>5, <5>1, <5>2 DEF Written
      <4>2. \A i \in 1 .. next'[c] - 1 : i \in 1 .. next[c] - 1 \/ (i \in Nat /\ i = next[c])
        BY <2>1, <2>5
      <4>3. QED
        <5>1. ASSUME NEW i \in 1 .. next'[c] - 1 PROVE Written(c, i)'
          BY <3>2, <3>4, <4>1, <4>2
        <5>2. QED
          BY <3>1, <3>4, <5>1
    <3>5. QED
      BY <3>3, <3>4
  <2>9. QED
    BY <2>6, <2>7, <2>8 DEF Locks
<1>3. ASSUME NEW c \in Clients, Active(c),
             UNCHANGED <<batch, next>>, Unlock(c),
             \A d \in Clients \ {c} : Active(d)' <=> Active(d),
             ~Active(c)',
             \A id \in Ids : IF lock[id] = c THEN newest'[id] = table'[id]
                             ELSE newest'[id] = newest[id] /\ table'[id] = table[id]
      PROVE  Locks'
  <2>1. /\ \A id \in Ids : lock[id] = c => lock'[id] = Nobody
        /\ \A id \in Ids : lock[id] # c => lock'[id] = lock[id]
    BY <1>3 DEF Unlock
  <2>2. \A id \in Ids : lock'[id] = Nobody => newest'[id] = table'[id]
    BY <1>3, <2>1 DEF Locks
  <2>3. ASSUME NEW id \in Ids, NEW d \in Clients, lock'[id] = d
        PROVE  d # c /\ lock[id] = d
    BY <2>1, <2>3, BatchConstants
  <2>4. ASSUME NEW d \in Clients, Active(d)'
        PROVE  batch'[d] \in Batches /\ \A i \in 1 .. next'[d] - 1 : Written(d, i)'
    <3>1. d # c /\ Active(d)
      BY <1>3, <2>4
    <3>2. ASSUME NEW i \in 1 .. next[d] - 1 PROVE Written(d, i)'
      <4>1. Written(d, i) /\ batch[d][i].id \in Ids
        BY <3>1, <3>2, StatementIsElement DEF Locks
      <4>2. lock[batch[d][i].id] # c
        BY <3>1, <4>1 DEF Written
      <4>3. QED
        BY <1>3, <2>1, <4>1, <4>2 DEF Written
    <3>3. QED
      BY <1>3, <3>1, <3>2 DEF Locks
  <2>5. QED
    BY <1>3, <2>2, <2>3, <2>4 DEF Locks
<1>4. ASSUME NEW c \in Clients, NEW o \in {"aborted", "lost"},
             Active(c), Abort(c, o)
      PROVE  Locks'
  BY <1>3, <1>4 DEF Abort, Ended, Active, TypeOK, Table
<1>5. ASSUME NEW c \in Clients, Commit(c) PROVE Locks'
  BY <1>3, <1>5 DEF Commit, Ended, Active, TypeOK, Table
<1>6. ASSUME NEW c \in Clients, Answer(c) \/ AnswerEarly(c) PROVE Locks'
  <2>1. \A d \in Clients : Active(d)' <=> Active(d)
    BY <1>6 DEF Answer, AnswerEarly, Active, TypeOK
  <2>2. UNCHANGED <<table, newest, lock, batch, next>>
    BY <1>6 DEF Answer, AnswerEarly
  <2>3. QED
    BY <2>1, <2>2 DEF Locks, Written
<1>7. CASE UNCHANGED vars
  BY <1>7 DEF vars, Locks, Written, Active
<1>8. ASSUME NEW c \in Clients, ExecFails(c) \/ ConnectionLost(c) \/ DeadlockAbort(c)
      PROVE  Active(c) /\ \E o \in {"aborted", "lost"} : Abort(c, o)
  BY <1>8 DEF ExecFails, Granted, ConnectionLost, DeadlockAbort, Deadlocked, InCircle,
         Waiting
<1>9. QED
  BY <1>1, <1>2, <1>4, <1>5, <1>6, <1>7, <1>8
  DEF Next, Methods, UpdateMetric, UpdateMetrics

\* Locks holds in every reachable state.
LEMMA DatabaseLocks == Spec => []Locks
<1>1. Init => Locks
  BY BatchConstants DEF Init, Locks, Active
<1>2. QED
  BY <1>1, NextLocks, DatabaseTypes, PTL DEF Spec

-----------------------------------------------------------------------------
(* Deadlocks *)

\* A transaction that another one waits for has named the row before.
LEMMA LocksCross == TypeOK /\ Locks => CrossedWaits
<1> SUFFICES ASSUME TypeOK, Locks,
                    NEW S \in SUBSET Clients, InCircle(S), NEW c \in S
             PROVE  \E d \in S \ {c} : \E i \in 1 .. next[c] - 1 :
                        batch[c][i].id = Statement(d).id
  BY DEF CrossedWaits
<1>1. PICK d \in S : lock[Statement(d).id] = c
  BY DEF InCircle, WaitsFor
<1>2. Waiting(d) /\ d \in Clients
  BY DEF InCircle
<1>3. d # c
  BY <1>1, <1>2 DEF Waiting, Granted
<1>4. Statement(d).id \in Ids
  BY <1>2, StatementIsElement DEF Waiting, Statement
<1>5. QED
  BY <1>1, <1>3, <1>4 DEF Locks

\* Whatever the batches are, a deadlock takes batches whose orders do not fit
\* together (CrossedWaits).
THEOREM DeadlocksCross == Spec => []CrossedWaits
BY LocksCross, DatabaseTypes, DatabaseLocks, PTL

\* A set of numbers that is not empty has a least one.
LEMMA LeastRank ==
    ASSUME NEW T, T \subseteq Nat, T # {}
    PROVE  \E m \in T : \A n \in T : m <= n
<1>1. PICK m \in T : \A n \in T : <<n, m>> \notin OpToRel(<, Nat)
  BY NatLessThanWellFounded, WFMin
<1>2. \A n \in T : ~(n < m)
  BY <1>1 DEF OpToRel
<1>3. QED
  BY <1>2

\* If all batches name their rows in one order, whichever it is, no
\* transactions ever wait for each other: sorting the metrics of a batch
\* would make the database's detector idle (Deadlocked).
THEOREM OrderedBatchesNeverDeadlock ==
    ASSUME NEW rank \in [Ids -> Nat],
           \A b \in Batches : \A i, j \in DOMAIN b :
               i < j => rank[b[i].id] < rank[b[j].id]
    PROVE  Spec => [](\A c \in Clients : ~Deadlocked(c))
<1> DEFINE place(c) == rank[Statement(c).id]
<1>1. ASSUME TypeOK, Locks, CrossedWaits, NEW S \in SUBSET Clients,
             InCircle(S), S # {}
      PROVE  FALSE
  <2>1. \A c \in S : /\ batch[c] \in Batches /\ Statement(c).id \in Ids
                     /\ next[c] \in Nat /\ next[c] \in DOMAIN batch[c]
                     /\ DOMAIN batch[c] = 1 .. Len(batch[c])
    BY <1>1, StatementIsElement DEF InCircle, Waiting, Locks, Statement
  <2>2. \A c \in S : place(c) \in Nat
    BY <2>1
  <2>3. PICK c \in S : \A d \in S : place(c) <= place(d)
    <3> DEFINE T == {place(c) : c \in S}
    <3>1. T \subseteq Nat /\ T # {}
      BY <1>1, <2>2
    <3>2. PICK m \in T : \A n \in T : m <= n
      BY <3>1, LeastRank
    <3>3. QED
      BY <3>2
  <2>4. PICK d \in S : \E i \in 1 .. next[c] - 1 :
                         batch[c][i].id = Statement(d).id
    BY <1>1 DEF CrossedWaits
  <2>5. PICK i \in 1 .. next[c] - 1 : batch[c][i].id = Statement(d).id
    BY <2>4
  <2>6. i < next[c] /\ i \in DOMAIN batch[c]
    BY <2>1, <2>5
  <2>7. place(d) < place(c)
    BY <2>1, <2>5, <2>6 DEF Statement
  <2>8. QED
    BY <2>2, <2>3, <2>7
<1>2. TypeOK /\ Locks /\ CrossedWaits => \A c \in Clients : ~Deadlocked(c)
  BY <1>1 DEF Deadlocked
<1>3. QED
  BY <1>2, DatabaseTypes, DatabaseLocks, DeadlocksCross, PTL

-----------------------------------------------------------------------------
(* Batches *)

\* A transaction whose statements have all run could be applied as it stands:
\* no other one changes the rows it holds.
LEMMA RanIsApplicable ==
    ASSUME TypeOK, Locks, NEW c \in Clients, Active(c),
           next[c] = Len(batch[c]) + 1
    PROVE  Applicable(table, batch[c])
<1>1. DOMAIN batch[c] = 1 .. next[c] - 1
  BY StatementIsElement
<1>2. \A i \in DOMAIN batch[c] : Written(c, i)
  BY <1>1 DEF Locks
<1>3. QED
  BY <1>2 DEF Applicable, Written

\* A commit puts into the table what its batch says, and nothing else.
LEMMA CommitIsAfter ==
    ASSUME TypeOK, Locks, NEW c \in Clients, Commit(c)
    PROVE  Applicable(table, batch[c]) /\ table' = After(table, batch[c])
<1> DEFINE b == batch[c]
<1>1. /\ Active(c) /\ b \in Batches
      /\ \A i \in DOMAIN b : Written(c, i) /\ b[i].id \in Ids
      /\ \A id \in Ids : lock[id] = c => \E i \in DOMAIN b : b[i].id = id
  <2>1. DOMAIN b = 1 .. next[c] - 1 /\ DOMAIN b = 1 .. Len(b)
    BY StatementIsElement DEF Commit
  <2>2. QED
    BY <2>1, StatementIsElement DEF Commit, Locks
<1> HIDE DEF b
<1>2. Applicable(table, b)
  BY RanIsApplicable DEF Commit, b
<1>3. ASSUME NEW id \in Ids PROVE table'[id] = After(table, b)[id]
  <2>1. lock[id] = c <=> id \in Names(b)
    BY <1>1 DEF Names, Written, b
  <2>2. CASE id \in Names(b)
    <3>1. PICK i \in DOMAIN b : i = CHOOSE j \in DOMAIN b : b[j].id = id
      BY <2>2 DEF Names
    <3>2. b[i].id = id
      BY <2>2, <3>1 DEF Names
    <3>3. newest[id] = Upsert(table[id], b[i])
      BY <1>1, <3>2 DEF Written, b
    <3>4. table'[id] = newest[id]
      BY <2>1, <2>2 DEF Commit
    <3>5. QED
      BY <2>2, <3>1, <3>3, <3>4 DEF After
  <2>3. CASE id \notin Names(b)
    BY <2>1, <2>3 DEF Commit, After
  <2>4. QED
    BY <2>2, <2>3
<1>4. table' = After(table, b)
  BY <1>3 DEF Commit, After
<1>5. QED
  BY <1>2, <1>4 DEF b

\* Only a commit changes the table.
LEMMA TableChanges ==
    ASSUME [Next]_vars
    PROVE  table' = table \/ \E c \in Clients : Commit(c)
BY DEF Next, vars, UpdateMetric, UpdateMetrics, Begin, Exec, ExecFails,
       ConnectionLost, DeadlockAbort, Abort, Answer, AnswerEarly

\* A metric keeps the type it was first stored with (TypesStay).
THEOREM TypesStayTheorem == Spec => TypesStay
<1>1. TypeOK /\ Locks /\ [Next]_vars =>
        [\A id \in Ids : table[id] # NoRow =>
            table'[id] # NoRow /\ table'[id].type = table[id].type]_vars
  <2> SUFFICES ASSUME TypeOK, Locks, [Next]_vars, NEW id \in Ids,
                      table[id] # NoRow
               PROVE  table'[id] # NoRow /\ table'[id].type = table[id].type
    OBVIOUS
  <2>1. CASE table' = table
    BY <2>1
  <2>2. ASSUME NEW c \in Clients, Commit(c), lock[id] = c
        PROVE  table'[id] # NoRow /\ table'[id].type = table[id].type
    <3>1. table'[id] = newest[id]
      BY <2>2 DEF Commit
    <3>2. PICK i \in 1 .. next[c] - 1 : batch[c][i].id = id
      BY <2>2 DEF Locks
    <3>3. Written(c, i) /\ i \in 1 .. Len(batch[c])
      BY <2>2, <3>2, StatementIsElement DEF Commit, Locks
    <3>4. batch[c][i] \in Element /\ table[id] \in Row
      BY <3>3, StatementIsElement DEF TypeOK, Table
    <3>5. /\ newest[id] = Upsert(table[id], batch[c][i])
          /\ ~Refused(table[id], batch[c][i])
      BY <3>2, <3>3 DEF Written
    <3>6. newest[id] \in Row
      BY <3>4, <3>5, UpsertIsRow
    <3>7. newest[id].type = table[id].type
      BY <3>4, <3>5 DEF Upsert, Row
    <3>8. QED
      BY <3>1, <3>6, <3>7, RowConstants
  <2>3. ASSUME NEW c \in Clients, Commit(c), lock[id] # c
        PROVE  table'[id] = table[id]
    BY <2>3 DEF Commit
  <2>4. QED
    BY <2>1, <2>2, <2>3, TableChanges
<1>2. QED
  BY <1>1, DatabaseTypes, DatabaseLocks, PTL DEF Spec, TypesStay

\* The operators of AtomicBatches are those of the database.
LEMMA SameRows ==
    ASSUME NEW t, NEW b
    PROVE  /\ Atomic!Applicable(t, b) <=> Applicable(t, b)
           /\ Atomic!After(t, b) = After(t, b)
<1>1. ASSUME NEW row, NEW e
      PROVE  /\ Atomic!Refused(row, e) <=> Refused(row, e)
             /\ Atomic!Upsert(row, e) = Upsert(row, e)
  BY DEF Atomic!Refused, Refused, Atomic!Upsert, Upsert, Atomic!Int64, Int64
<1>2. Atomic!Names(b) = Names(b)
  BY DEF Atomic!Names, Names
<1>3. QED
  BY <1>1, <1>2 DEF Atomic!Applicable, Applicable, Atomic!After, After

\* A step begins, applies, drops or answers a call, or is silent.
LEMMA StepIsAtomic ==
    TypeOK /\ Locks /\ [Next]_vars
        => [Atomic!Next]_<<table, Calls, batch, method, answer>>
<1> SUFFICES ASSUME TypeOK, Locks, [Next]_vars
             PROVE  Atomic!Next \/ UNCHANGED <<table, Calls, batch, method, answer>>
  OBVIOUS
<1> USE DEF session
<1>names. /\ CallState["idle"] = "idle" /\ CallState["running"] = "open"
          /\ CallState["left"] = "left" /\ CallState["committed"] = "applied"
          /\ CallState["aborted"] = "failed" /\ CallState["lost"] = "lost"
  BY DEF CallState
<1>move. ASSUME NEW c \in Clients,
                NEW to \in {"idle", "running", "left", "committed", "aborted", "lost"},
                pc' = [pc EXCEPT ![c] = to]
         PROVE  /\ Calls[c] = CallState[pc[c]]
                /\ Calls' = [Calls EXCEPT ![c] = CallState[to]]
  <2>1. pc \in [Clients -> {"idle", "running", "left", "committed", "aborted", "lost"}]
    BY DEF TypeOK
  <2>2. QED
    BY <1>move, <2>1 DEF Calls
<1>1. ASSUME NEW c \in Clients, NEW b \in Batches, NEW m \in Methods,
             m = "SetOrUpdateMetric" => Len(b) = 1, Begin(c, b, m)
      PROVE  Atomic!Begin(c)
  <2>1. CASE pc[c] = "idle"
    <3>1. pc' = [pc EXCEPT ![c] = "running"]
      BY <1>1, <2>1 DEF Begin
    <3>2. Calls[c] = "idle" /\ Calls' = [Calls EXCEPT ![c] = "open"]
      BY <2>1, <3>1, <1>names, <1>move
    <3>3. QED
      BY <1>1, <3>2 DEF Begin, Atomic!Begin, Methods
  <2>2. QED
    BY <1>1, <2>1 DEF Begin
<1>2. ASSUME NEW c \in Clients, Active(c), Abort(c, "aborted")
      PROVE  Atomic!Drop(c)
  <2>1. CASE pc[c] = "left"
    <3>1. pc' = [pc EXCEPT ![c] = "idle"]
      BY <1>2, <2>1 DEF Abort, Ended
    <3>2. Calls[c] = "left" /\ Calls' = [Calls EXCEPT ![c] = "idle"]
      BY <2>1, <3>1, <1>names, <1>move
    <3>3. QED
      BY <1>2, <3>2 DEF Abort, Atomic!Drop, Atomic!Ended
  <2>2. CASE pc[c] = "running"
    <3>1. pc' = [pc EXCEPT ![c] = "aborted"]
      BY <1>2, <2>2 DEF Abort, Ended
    <3>2. Calls[c] = "open" /\ Calls' = [Calls EXCEPT ![c] = "failed"]
      BY <2>2, <3>1, <1>names, <1>move
    <3>3. QED
      BY <1>2, <3>2 DEF Abort, Atomic!Drop, Atomic!Ended
  <2>3. QED
    BY <1>2, <2>1, <2>2 DEF Active
<1>3. ASSUME NEW c \in Clients, Commit(c) PROVE Atomic!Apply(c)
  <2>1. Atomic!Applicable(table, batch[c]) /\ table' = Atomic!After(table, batch[c])
    BY <1>3, CommitIsAfter, SameRows
  <2>2. CASE pc[c] = "left"
    <3>1. pc' = [pc EXCEPT ![c] = "idle"]
      BY <1>3, <2>2 DEF Commit, Ended
    <3>2. Calls[c] = "left" /\ Calls' = [Calls EXCEPT ![c] = "idle"]
      BY <2>2, <3>1, <1>names, <1>move
    <3>3. QED
      BY <1>3, <3>2, <2>1 DEF Commit, Atomic!Apply, Atomic!Ended
  <2>3. CASE pc[c] = "running"
    <3>1. pc' = [pc EXCEPT ![c] = "committed"]
      BY <1>3, <2>3 DEF Commit, Ended
    <3>2. Calls[c] = "open" /\ Calls' = [Calls EXCEPT ![c] = "applied"]
      BY <2>3, <3>1, <1>names, <1>move
    <3>3. QED
      BY <1>3, <3>2, <2>1 DEF Commit, Atomic!Apply, Atomic!Ended
  <2>4. QED
    BY <1>3, <2>2, <2>3 DEF Commit, Active
<1>pass. ASSUME NEW c \in Clients, Active(c), AllRan(c)
         PROVE  Atomic!CanPass(c)
  BY <1>pass, RanIsApplicable, SameRows DEF AllRan, Atomic!CanPass
<1>3a. ASSUME NEW c \in Clients, Active(c), AllRan(c), Abort(c, "lost")
       PROVE  Atomic!Lose(c)
  <2>1. Atomic!CanPass(c)
    BY <1>3a, <1>pass
  <2>2. CASE pc[c] = "left"
    <3>1. pc' = [pc EXCEPT ![c] = "idle"]
      BY <1>3a, <2>2 DEF Abort, Ended
    <3>2. Calls[c] = "left" /\ Calls' = [Calls EXCEPT ![c] = "idle"]
      BY <2>2, <3>1, <1>names, <1>move
    <3>3. QED
      BY <1>3a, <2>1, <3>2 DEF Abort, Atomic!Lose, Atomic!Ended
  <2>3. CASE pc[c] = "running"
    <3>1. pc' = [pc EXCEPT ![c] = "lost"]
      BY <1>3a, <2>3 DEF Abort, Ended
    <3>2. Calls[c] = "open" /\ Calls' = [Calls EXCEPT ![c] = "lost"]
      BY <2>3, <3>1, <1>names, <1>move
    <3>3. QED
      BY <1>3a, <2>1, <3>2 DEF Abort, Atomic!Lose, Atomic!Ended
  <2>4. QED
    BY <1>3a, <2>2, <2>3 DEF Active
<1>4. ASSUME NEW c \in Clients, Answer(c) PROVE Atomic!Answer(c)
  <2>1. pc' = [pc EXCEPT ![c] = "idle"] /\ pc[c] \in {"committed", "aborted", "lost"}
    BY <1>4 DEF Answer
  <2>2. /\ Calls[c] = CallState[pc[c]]
        /\ Calls' = [Calls EXCEPT ![c] = "idle"]
    BY <2>1, <1>names, <1>move
  <2>3. Calls[c] \in {"applied", "failed", "lost"} /\ Atomic!Heard[Calls[c]] = Heard[pc[c]]
    BY <2>1, <2>2, <1>names DEF Heard, Atomic!Heard
  <2>4. QED
    BY <1>4, <2>2, <2>3 DEF Answer, Atomic!Answer
<1>5. ASSUME NEW c \in Clients, AnswerEarly(c) PROVE Atomic!AnswerEarly(c)
  <2>1. CASE pc[c] = "running"
    <3>1. pc' = [pc EXCEPT ![c] = "left"]
      BY <1>5, <2>1 DEF AnswerEarly
    <3>2. Calls[c] = "open" /\ Calls' = [Calls EXCEPT ![c] = "left"]
      BY <2>1, <3>1, <1>names, <1>move
    <3>3. AllRan(c) => Atomic!CanPass(c)
      BY <2>1, <1>pass DEF Active
    <3>4. QED
      BY <1>5, <3>2, <3>3 DEF AnswerEarly, Atomic!AnswerEarly
  <2>2. CASE pc[c] = "committed"
    <3>1. pc' = [pc EXCEPT ![c] = "idle"]
      BY <1>5, <2>2 DEF AnswerEarly
    <3>2. Calls[c] = "applied" /\ Calls' = [Calls EXCEPT ![c] = "idle"]
      BY <2>2, <3>1, <1>names, <1>move
    <3>3. QED
      BY <1>5, <3>2 DEF AnswerEarly, Atomic!AnswerEarly
  <2>3. QED
    BY <1>5, <2>1, <2>2 DEF AnswerEarly
<1>6. ASSUME NEW c \in Clients, Exec(c)
      PROVE  UNCHANGED <<table, Calls, batch, method, answer>>
  BY <1>6 DEF Exec, Calls
<1>7. ASSUME UNCHANGED vars PROVE UNCHANGED <<table, Calls, batch, method, answer>>
  BY <1>7 DEF vars, Calls
<1>8. ASSUME NEW c \in Clients, ExecFails(c) \/ ConnectionLost(c) \/ DeadlockAbort(c)
      PROVE  Active(c) /\ (Abort(c, "aborted") \/ (AllRan(c) /\ Abort(c, "lost")))
  BY <1>8 DEF ExecFails, Granted, ConnectionLost, DeadlockAbort, Deadlocked, InCircle,
         Waiting
<1>9. QED
  BY <1>1, <1>2, <1>3, <1>3a, <1>4, <1>5, <1>6, <1>7, <1>8
  DEF Next, Methods, UpdateMetric, UpdateMetrics, Atomic!Next

\* The database storage applies each batch as a whole and at one moment, or
\* not at all.  It says "ok" of a single metric only when it applied it, of a
\* batch only when all its statements had succeeded, so that it lost it only if
\* the transaction ended before its commit (AtomicSpec).
THEOREM DatabaseIsAtomic == Spec => AtomicSpec
<1>1. Init => Atomic!Init
  BY DEF Init, Atomic!Init, Calls, CallState
<1>2. QED
  BY <1>1, StepIsAtomic, DatabaseTypes, DatabaseLocks, PTL
  DEF Spec, AtomicSpec, Atomic!Spec

\* Between the last statement of a batch and its commit the transaction or its
\* handler is cut off: br.Close finds an error, and discards it.
EndIsCut(c) == Active(c) /\ AllRan(c) /\ (ConnectionLost(c) \/ AnswerEarly(c))

\* As long as that does not happen, "ok" is the truth for batches too: the error
\* that SetOrUpdateMetricBatch discards when it defers br.Close is all there is
\* between its nil and an applied batch (AtomicSpec).
THEOREM OkIsTrueUnlessCut ==
    Spec /\ [][\A c \in Clients : ~EndIsCut(c)]_vars => Atomic!TruthfulSpec
<1> DEFINE NothingLost == \A c \in Clients : pc[c] # "lost"
           Uncut == \A c \in Clients : ~EndIsCut(c)
<1>1. Init => NothingLost
  BY DEF Init
<1>2. ASSUME TypeOK, [Next]_vars, [Uncut]_vars, NothingLost PROVE NothingLost'
  <2>1. ASSUME NEW c \in Clients, Abort(c, "aborted") PROVE NothingLost'
    BY <1>2, <2>1 DEF Abort, Ended, TypeOK
  <2>2. ASSUME NEW c \in Clients, ConnectionLost(c) PROVE NothingLost'
    <3>1. CASE AllRan(c)
      <4>1. UNCHANGED vars
        BY <1>2, <2>2, <3>1 DEF EndIsCut, ConnectionLost
      <4>2. QED
        BY <1>2, <4>1 DEF vars, session
    <3>2. CASE ~AllRan(c)
      BY <2>1, <2>2, <3>2 DEF ConnectionLost
    <3>3. QED
      BY <3>1, <3>2
  <2>3. ASSUME NEW c \in Clients, ExecFails(c) \/ DeadlockAbort(c) PROVE NothingLost'
    BY <2>1, <2>3 DEF ExecFails, DeadlockAbort
  <2>4. ASSUME NEW c \in Clients,
               UpdateMetric(c) \/ UpdateMetrics(c) \/ Exec(c) \/ Commit(c)
                  \/ Answer(c) \/ AnswerEarly(c)
        PROVE  NothingLost'
    BY <1>2, <2>4 DEF UpdateMetric, UpdateMetrics, Begin, Exec, Commit, Ended, Answer,
           AnswerEarly, TypeOK
  <2>5. CASE UNCHANGED vars
    BY <1>2, <2>5 DEF vars, session
  <2>6. QED
    BY <1>2, <2>2, <2>3, <2>4, <2>5 DEF Next
<1>3. ASSUME TypeOK, [Next]_vars, [Uncut]_vars, NothingLost
      PROVE  [Atomic!Truthful]_answer
  <2> SUFFICES ASSUME NEW c \in Clients, answer[c] # "ok", answer'[c] = "ok"
               PROVE  Calls[c] = "applied"
    BY DEF Atomic!Truthful
  <2>1. pc[c] = "committed" => Calls[c] = "applied"
    BY DEF Calls, CallState
  <2>2. ASSUME NEW d \in Clients, Answer(d) \/ AnswerEarly(d) PROVE d = c
    BY <1>3, <2>2 DEF Answer, AnswerEarly, TypeOK
  <2>3. Answer(c) \/ AnswerEarly(c)
    <3>1. \E d \in Clients : Answer(d) \/ AnswerEarly(d)
      BY <1>3 DEF Next, vars, UpdateMetric, UpdateMetrics, Begin, Exec, ExecFails,
             ConnectionLost, DeadlockAbort, Abort, Commit, TypeOK
    <3>2. QED
      BY <2>2, <3>1
  <2>4. CASE Answer(c)
    BY <1>3, <2>1, <2>4 DEF Answer, Heard, TypeOK
  <2>5. CASE AnswerEarly(c)
    <3>1. AllRan(c)
      BY <1>3, <2>5 DEF AnswerEarly, TypeOK
    <3>2. vars' # vars
      BY DEF vars
    <3>3. ~Active(c)
      BY <1>3, <2>5, <3>1, <3>2 DEF EndIsCut
    <3>4. QED
      BY <2>1, <2>5, <3>3 DEF AnswerEarly, Active
  <2>6. QED
    BY <2>3, <2>4, <2>5
<1> HIDE DEF NothingLost
<1>4. QED
  BY <1>1, <1>2, <1>3, DatabaseTypes, DatabaseIsAtomic, PTL
  DEF Spec, AtomicSpec, Atomic!TruthfulSpec, Uncut

-----------------------------------------------------------------------------
(* The page *)

\* Every row of t has the type its name is used with, and can be read.
Fits(kind, t) ==
    \A id \in Ids : t[id] # NoRow => t[id].type = kind[id] /\ Readable(t[id])

\* If every name is sent with one type only, GET / is served whatever was
\* stored: the listing fails only for a name that was used with both types
\* (PageIsServed).
THEOREM UniformPageIsServed ==
    ASSUME NEW kind,
           \A b \in Batches : \A i \in DOMAIN b : b[i].type = kind[b[i].id]
    PROVE  Spec => []PageIsServed
<1> DEFINE Inv == Fits(kind, table) /\ Fits(kind, newest)
<1>1. Init => Inv
  BY DEF Init, Fits
<1>2. ASSUME TypeOK, Locks, [Next]_vars, Inv PROVE Inv'
  <2>1. ASSUME NEW c \in Clients, Exec(c) PROVE Inv'
    <3> DEFINE e == Statement(c)
    <3>1. /\ e \in Element /\ e.id \in Ids /\ ~Refused(newest[e.id], e)
          /\ next[c] \in DOMAIN batch[c] /\ Active(c)
      BY <1>2, <2>1, StatementIsElement DEF Exec, Granted, Statement
    <3>2. e.type = kind[e.id]
      BY <1>2, <3>1 DEF Locks, Statement
    <3>3. /\ table' = table
          /\ newest'[e.id] = Upsert(newest[e.id], e)
          /\ \A id \in Ids \ {e.id} : newest'[id] = newest[id]
      BY <1>2, <2>1, <3>1 DEF Exec, TypeOK, Table
    <3> HIDE DEF e
    <3>4. newest[e.id] \in {NoRow} \cup Row
      BY <1>2, <3>1 DEF TypeOK, Table
    <3>5. Upsert(newest[e.id], e) \in Row
      BY <3>1, <3>4, UpsertIsRow
    <3>6. Upsert(newest[e.id], e).type = kind[e.id]
      BY <1>2, <3>1, <3>2, <3>4 DEF Fits, Upsert, Row
    <3>7. Readable(Upsert(newest[e.id], e))
      <4> USE RowConstants DEF Element, Row, Value, Types, Int64, Readable
      <4>1. CASE newest[e.id] = NoRow
        BY <3>1, <4>1 DEF Upsert
      <4>2. CASE newest[e.id] # NoRow /\ e.type = "gauge"
        BY <3>5, <3>6, <3>2, <4>2
      <4>3. CASE newest[e.id] # NoRow /\ e.type = "counter"
        BY <1>2, <3>1, <3>2, <3>4, <4>3 DEF Refused, Upsert, Fits
      <4>4. QED
        BY <3>1, <4>1, <4>2, <4>3
    <3>8. QED
      BY <1>2, <3>1, <3>3, <3>6, <3>7 DEF Fits
  <2>2. ASSUME \A id \in Ids : /\ table'[id] \in {table[id], newest[id]}
                              /\ newest'[id] \in {table[id], newest[id]}
        PROVE  Inv'
    BY <1>2, <2>2 DEF Fits
  <2>3. ASSUME NEW c \in Clients, NEW o, Abort(c, o) \/ Commit(c) PROVE Inv'
    BY <2>2, <2>3 DEF Abort, Commit
  <2>4. ASSUME UNCHANGED <<table, newest>> PROVE Inv'
    BY <2>2, <2>4
  <2>5. QED
    BY <1>2, <2>1, <2>3, <2>4
    DEF Next, vars, UpdateMetric, UpdateMetrics, Begin, ExecFails,
        ConnectionLost, DeadlockAbort, Answer, AnswerEarly
<1>3. Inv => PageIsServed
  BY DEF Fits, PageIsServed, RootHandler, GetMetricsFails
<1> HIDE DEF Inv
<1>4. QED
  BY <1>1, <1>2, <1>3, DatabaseTypes, DatabaseLocks, PTL DEF Spec
=============================================================================
