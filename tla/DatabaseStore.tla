---------------------------- MODULE DatabaseStore ----------------------------
(***************************************************************************)
(* The database storage (internal/storage/postgresql/postgresql.go) under  *)
(* the update handlers of several clients.                                 *)
(*                                                                         *)
(* SendBatch sends all statements of a batch with one Sync, which makes    *)
(* them one transaction at READ COMMITTED.  A statement locks its row      *)
(* until the end of the transaction, and waits for the lock; PostgreSQL    *)
(* aborts a transaction that waits for itself.  Statements run in the      *)
(* order of the batch, which for the agent is that of a Go map.            *)
(*                                                                         *)
(* When a handler's context ends, the connection is closed and the handler *)
(* answers, while the database may still run what it has.  A batch's       *)
(* results are read one by one, that of its end by br.Close, whose error   *)
(* is discarded: once all statements have run, nil says no more than that. *)
(***************************************************************************)
EXTENDS MetricRows

CONSTANTS
    Clients,   \* requests at a time, each with a connection
    Batches,   \* what they send
    Nobody     \* a row is not locked

ASSUME BatchConstants ==
    /\ Nobody \notin Clients
    /\ \A b \in Batches : b \in Seq(Element) /\ Distinct(b)

VARIABLES
    table,    \* what is committed
    newest,   \* the newest version of each row, committed or not
    lock,     \* the transaction that holds a row
    pc,       \* "left": the handler has answered, the transaction runs
    batch,    \* statements of the transaction
    next,     \* the next one
    method,   \* the method of the storage that was called
    answer    \* the handler's answer

session == <<pc, batch, next, method>>
vars == <<table, newest, lock, session, answer>>

TypeOK ==
    /\ table \in Table
    /\ newest \in Table
    /\ lock \in [Ids -> Clients \cup {Nobody}]
    /\ pc \in [Clients -> {"idle", "running", "left", "committed", "aborted", "lost"}]
    /\ batch \in [Clients -> Batches \cup {<<>>}]
    /\ next \in [Clients -> Nat]
    /\ \A c \in Clients : next[c] \in 1 .. Len(batch[c]) + 1
    /\ method \in [Clients -> {"SetOrUpdateMetric", "SetOrUpdateMetricBatch"}]
    /\ answer \in [Clients -> {"none", "ok", "error"}]

Init ==
    /\ table = [id \in Ids |-> NoRow]
    /\ newest = table
    /\ lock = [id \in Ids |-> Nobody]
    /\ pc = [c \in Clients |-> "idle"]
    /\ batch = [c \in Clients |-> <<>>]
    /\ next = [c \in Clients |-> 1]
    /\ method = [c \in Clients |-> "SetOrUpdateMetric"]
    /\ answer = [c \in Clients |-> "none"]

-----------------------------------------------------------------------------
(* A request and its transaction *)

Active(c) == pc[c] \in {"running", "left"}

\* A handler has decoded its request and calls the storage.
Begin(c, b, m) ==
    /\ pc[c] = "idle"
    /\ pc' = [pc EXCEPT ![c] = "running"]
    /\ batch' = [batch EXCEPT ![c] = b]
    /\ next' = [next EXCEPT ![c] = 1]
    /\ method' = [method EXCEPT ![c] = m]
    /\ answer' = [answer EXCEPT ![c] = "none"]
    /\ UNCHANGED <<table, newest, lock>>

UpdateMetric(c) ==
    \E b \in Batches : Len(b) = 1 /\ Begin(c, b, "SetOrUpdateMetric")
UpdateMetrics(c) ==
    \E b \in Batches : Begin(c, b, "SetOrUpdateMetricBatch")

Statement(c) == batch[c][next[c]]

\* The next statement can have its row.
Granted(c) ==
    /\ Active(c)
    /\ next[c] <= Len(batch[c])
    /\ lock[Statement(c).id] \in {c, Nobody}

\* Mutant: every statement is a transaction of its own.
ExecAutocommit(c) ==
    LET e == Statement(c) IN
    /\ Granted(c)
    /\ ~Refused(newest[e.id], e)
    /\ newest' = [newest EXCEPT ![e.id] = Upsert(@, e)]
    /\ table' = newest'
    /\ next' = [next EXCEPT ![c] = @ + 1]
    /\ UNCHANGED <<lock, pc, batch, method, answer>>

Exec(c) ==
    LET e == Statement(c) IN
    /\ Granted(c)
    /\ ~Refused(newest[e.id], e)
    /\ newest' = [newest EXCEPT ![e.id] = Upsert(@, e)]
    /\ lock' = [lock EXCEPT ![e.id] = c]
    /\ next' = [next EXCEPT ![c] = @ + 1]
    /\ UNCHANGED <<table, pc, batch, method, answer>>

\* The transaction is over; nobody waits for it if the handler has left.
Ended(c, outcome) ==
    pc' = [pc EXCEPT ![c] = IF @ = "left" THEN "idle" ELSE outcome]

Unlock(c) == lock' = [id \in Ids |-> IF lock[id] = c THEN Nobody ELSE lock[id]]

\* Mutant: the batch is not closed after an error.
AbortUnclosed(c, outcome) ==
    /\ newest' = [id \in Ids |-> IF lock[id] = c THEN table[id] ELSE newest[id]]
    /\ Ended(c, outcome)
    /\ UNCHANGED <<table, lock, batch, next, method, answer>>

Abort(c, outcome) ==
    /\ newest' = [id \in Ids |-> IF lock[id] = c THEN table[id] ELSE newest[id]]
    /\ Unlock(c)
    /\ Ended(c, outcome)
    /\ UNCHANGED <<table, batch, next, method, answer>>

\* A statement fails: br.Exec returns the error and br is closed.
ExecFails(c) ==
    /\ Granted(c)
    /\ Refused(newest[Statement(c).id], Statement(c))
    /\ Abort(c, "aborted")

\* All statements of a batch have run, and each br.Exec may have returned.
\* DB.Exec, for a single metric, also waits for the end of the transaction.
AllRan(c) ==
    /\ method[c] = "SetOrUpdateMetricBatch"
    /\ next[c] = Len(batch[c]) + 1

\* The database ends a connection, or finds it closed, or cannot commit.
ConnectionLost(c) ==
    /\ Active(c)
    /\ Abort(c, IF AllRan(c) THEN "lost" ELSE "aborted")

\* Transactions that wait for each other.
WaitsFor(c) == lock[Statement(c).id]

Waiting(c) ==
    /\ Active(c)
    /\ next[c] <= Len(batch[c])
    /\ ~Granted(c)

InCircle(S) == (\A d \in S : Waiting(d)) /\ {WaitsFor(d) : d \in S} = S

Deadlocked(c) == \E S \in SUBSET Clients : c \in S /\ InCircle(S)

DeadlockAbort(c) == Deadlocked(c) /\ Abort(c, "aborted")

Commit(c) ==
    /\ Active(c)
    /\ next[c] = Len(batch[c]) + 1
    /\ table' = [id \in Ids |-> IF lock[id] = c THEN newest[id] ELSE table[id]]
    /\ Unlock(c)
    /\ Ended(c, "committed")
    /\ UNCHANGED <<newest, batch, next, method, answer>>

\* What a handler can hear of the end of its transaction: of one that was lost
\* after its last statement, only br.Close has the error.
Heard == [committed |-> {"ok"}, aborted |-> {"error"}, lost |-> {"ok", "error"}]

\* 200, or 500 for an error of the storage.
Answer(c) ==
    /\ pc[c] \in {"committed", "aborted", "lost"}
    /\ \E said \in Heard[pc[c]] : answer' = [answer EXCEPT ![c] = said]
    /\ pc' = [pc EXCEPT ![c] = "idle"]
    /\ UNCHANGED <<table, newest, lock, batch, next, method>>

\* The request's context ends, or the connection breaks.  The storage returns
\* an error, or nil if that was while br.Close waited.
AnswerEarly(c) ==
    /\ pc[c] \in {"running", "committed"}
    /\ \E said \in {"ok", "error"} :
          /\ said = "ok" => AllRan(c)
          /\ answer' = [answer EXCEPT ![c] = said]
    /\ pc' = [pc EXCEPT ![c] = IF @ = "running" THEN "left" ELSE "idle"]
    /\ UNCHANGED <<table, newest, lock, batch, next, method>>

Next ==
    \/ \E c \in Clients :
          \/ UpdateMetric(c) \/ UpdateMetrics(c)
          \/ Exec(c) \/ ExecFails(c) \/ ConnectionLost(c)
          \/ Commit(c) \/ Answer(c) \/ AnswerEarly(c)
    \/ \E c \in Clients : DeadlockAbort(c)

Spec == Init /\ [][Next]_vars

-----------------------------------------------------------------------------
(* Readers *)

\* GetMetrics fails as a whole on one row it cannot read.
GetMetricsFails == \E id \in Ids : table[id] # NoRow /\ ~Readable(table[id])

\* The status of GET /.
RootHandler == IF GetMetricsFails THEN 500 ELSE 200

-----------------------------------------------------------------------------
(* Properties *)

\* What a handler knows of its call.
CallState == [idle |-> "idle", running |-> "open", left |-> "left",
              committed |-> "applied", aborted |-> "failed", lost |-> "lost"]
Calls == [c \in Clients |-> CallState[pc[c]]]

\* Batches are applied one at a time and as a whole, however their statements
\* interleave, wait and fail; "ok" is the truth for a single metric, and for a
\* batch it says that no statement was refused (postgresql.go:180, 202, 205).
Atomic == INSTANCE AtomicBatches WITH
              store <- table,
              arg <- batch,
              call <- Calls
AtomicSpec == Atomic!Spec

\* A metric keeps the type it was first stored with, whatever is sent under
\* its name, and is never removed (postgresql.go:131).
TypesStay ==
    [][\A id \in Ids : table[id] # NoRow =>
          table'[id] # NoRow /\ table'[id].type = table[id].type]_vars

\* Transactions can wait for each other only if their batches name rows in
\* orders that do not fit together: each has named, before the row it waits
\* for, one that another of them waits for (postgresql.go:180).
CrossedWaits ==
    \A S \in SUBSET Clients : InCircle(S) =>
        \A c \in S : \E d \in S \ {c} : \E i \in 1 .. next[c] - 1 :
            batch[c][i].id = Statement(d).id

\* "rootHandler serves the root HTML page displaying all metrics"
\* (router.go:185): whatever was stored, it can be shown.
PageIsServed == RootHandler = 200

\* A statement that can have its row now and then gets it, since waiters
\* queue; the others go on, and the database looks for deadlocks.
Fairness ==
    /\ \A c \in Clients :
          /\ SF_vars(Exec(c) \/ ExecFails(c))
          /\ WF_vars(Commit(c))
          /\ WF_vars(Answer(c))
    /\ WF_vars(\E c \in Clients : DeadlockAbort(c))

FairSpec == Spec /\ Fairness

\* Every request is answered and its transaction ends, although batches lock
\* the same rows in any order (postgresql.go:180).
UpdatesEnd == \A c \in Clients : pc[c] # "idle" ~> pc[c] = "idle"
=============================================================================
