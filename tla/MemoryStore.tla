----------------------------- MODULE MemoryStore -----------------------------
(***************************************************************************)
(* The memory storage (internal/storage/memstorage/memstorage.go) under    *)
(* the handlers that update and read it (internal/router/router.go,        *)
(* internal/grpcapi/metrics_service.go).                                   *)
(*                                                                         *)
(* Updates, and the lookup of one metric, hold the lock.  GetMetric leaks  *)
(* a pointer to the live metric and GetMetrics the live map: their         *)
(* handlers read without the lock, while a batch is being applied.         *)
(***************************************************************************)
EXTENDS MemoryRows

CONSTANTS
    Clients,   \* requests that are served at a time
    Batches,   \* what the updates among them send
    Nobody     \* the lock is free

ASSUME MemoryConstants ==
    /\ Nobody \notin Clients
    /\ \A b \in Batches : b \in Seq(Element) /\ Distinct(b)

VARIABLES
    alive,     \* the process has not died of a fatal error
    metrics,   \* MemoryStorage.Metrics
    holder,    \* the request that holds MemoryStorage.mu
    pc,        \* control state of a request's handler
    batch,     \* the metrics of a request's last update
    next,      \* the next metric of the batch that holds the lock
    answer,    \* what the last update was answered
    base       \* history: the metrics when the lock was last free

vars == <<alive, metrics, holder, pc, batch, next, answer, base>>

Updating == {"update", "locked", "applied", "failed"}
Reading == {"get", "lookup", "found", "missing", "range", "render"}

TypeOK ==
    /\ alive \in BOOLEAN
    /\ metrics \in Table /\ base \in Table
    /\ holder \in Clients \cup {Nobody}
    /\ pc \in [Clients -> {"idle"} \cup Updating \cup Reading]
    /\ batch \in [Clients -> Batches \cup {<<>>}]
    /\ next \in Nat \ {0}
    /\ answer \in [Clients -> {"none", "ok", "error"}]

Init ==
    /\ alive = TRUE
    /\ metrics = [id \in Ids |-> NoRow]
    /\ base = metrics
    /\ holder = Nobody
    /\ pc = [c \in Clients |-> "idle"]
    /\ batch = [c \in Clients |-> <<>>]
    /\ next = 1
    /\ answer = [c \in Clients |-> "none"]

Goto(c, from, to) ==
    /\ alive
    /\ pc[c] = from
    /\ pc' = [pc EXCEPT ![c] = to]

Answer(c, a) == answer' = [answer EXCEPT ![c] = a]

-----------------------------------------------------------------------------
(* SetOrUpdateMetric and SetOrUpdateMetricBatch *)

\* A handler has decoded its request and calls the storage.
Update(c, b) ==
    /\ Goto(c, "idle", "update")
    /\ batch' = [batch EXCEPT ![c] = b]
    /\ Answer(c, "none")
    /\ UNCHANGED <<alive, metrics, holder, next, base>>

UpdateMetric(c) == \E b \in Batches : Len(b) = 1 /\ Update(c, b)
UpdateMetrics(c) == \E b \in Batches : Update(c, b)

\* Mutant: a batch does not wait for the lock.
LockUnheld(c) ==
    /\ Goto(c, "update", "locked")
    /\ holder' = c
    /\ UNCHANGED <<alive, metrics, batch, next, answer, base>>

Lock(c) ==
    /\ holder = Nobody
    /\ Goto(c, "update", "locked")
    /\ holder' = c
    /\ UNCHANGED <<alive, metrics, batch, next, answer, base>>

Unlock == holder' = Nobody /\ next' = 1 /\ base' = metrics

Current(c) == batch[c][next]

InLoop(c) == pc[c] = "locked" /\ next <= Len(batch[c])

SetValue(c) ==
    LET e == Current(c) IN
    /\ alive /\ InLoop(c)
    /\ ~Mismatch(metrics[e.id], e)
    /\ metrics' = [metrics EXCEPT ![e.id] = Merge(@, e)]
    /\ next' = next + 1
    /\ UNCHANGED <<alive, holder, pc, batch, answer, base>>

\* The runtime notices that the map grows while a page ranges over it.
ConcurrentMapFatal(c) ==
    /\ alive /\ InLoop(c)
    /\ metrics[Current(c).id] = NoRow
    /\ \E r \in Clients : pc[r] = "range"
    /\ alive' = FALSE
    /\ UNCHANGED <<metrics, holder, pc, batch, next, answer, base>>

\* Mutant: the lock is not released with the error.
ReturnMismatchLocked(c) ==
    /\ InLoop(c)
    /\ Mismatch(metrics[Current(c).id], Current(c))
    /\ Goto(c, "locked", "failed")
    /\ UNCHANGED <<alive, metrics, holder, batch, next, answer, base>>

\* Mutant: what was done is undone.
ReturnMismatchUndone(c) ==
    /\ InLoop(c)
    /\ Mismatch(metrics[Current(c).id], Current(c))
    /\ Goto(c, "locked", "failed")
    /\ holder' = Nobody /\ next' = 1
    /\ metrics' = base
    /\ UNCHANGED <<alive, batch, answer, base>>

\* Another type: the call returns, and leaves what it has done.
ReturnMismatch(c) ==
    /\ InLoop(c)
    /\ Mismatch(metrics[Current(c).id], Current(c))
    /\ Goto(c, "locked", "failed")
    /\ Unlock
    /\ UNCHANGED <<alive, metrics, batch, answer>>

Return(c) ==
    /\ next = Len(batch[c]) + 1
    /\ Goto(c, "locked", "applied")
    /\ Unlock
    /\ UNCHANGED <<alive, metrics, batch, answer>>

\* 200, or 500 for an error of the storage.
AnswerUpdate(c) ==
    /\ \/ Goto(c, "applied", "idle") /\ Answer(c, "ok")
       \/ Goto(c, "failed", "idle") /\ Answer(c, "error")
    /\ UNCHANGED <<alive, metrics, holder, batch, next, base>>

-----------------------------------------------------------------------------
(* Readers.  What they are answered is not kept. *)

\* GET /value/{type}/{name} and POST /value/: the type is not looked at.
Get(c) ==
    /\ Goto(c, "idle", "get")
    /\ UNCHANGED <<alive, metrics, holder, batch, next, answer, base>>

\* The lookup holds the lock to its end, and returns the live metric.
Lookup(c) ==
    /\ holder = Nobody
    /\ \E id \in Ids :
          \/ metrics[id] # NoRow /\ Goto(c, "get", "found")
          \/ metrics[id] = NoRow /\ Goto(c, "get", "missing")
    /\ UNCHANGED <<alive, metrics, holder, batch, next, answer, base>>

\* 200, 404, or 500 for a gauge that is NaN, which JSON does not have.
AnswerGet(c) ==
    /\ Goto(c, "found", "idle") \/ Goto(c, "missing", "idle")
    /\ UNCHANGED <<alive, metrics, holder, batch, next, answer, base>>

\* GET /: GetMetrics takes no lock, and the template ranges over the live map.
BeginPage(c) ==
    /\ Goto(c, "idle", "range")
    /\ UNCHANGED <<alive, metrics, holder, batch, next, answer, base>>

EndRange(c) ==
    /\ Goto(c, "range", "render")
    /\ UNCHANGED <<alive, metrics, holder, batch, next, answer, base>>

\* The values are read when they are printed; the status was sent before.
AnswerPage(c) ==
    /\ Goto(c, "render", "idle")
    /\ UNCHANGED <<alive, metrics, holder, batch, next, answer, base>>

Dead == ~alive /\ UNCHANGED vars

Next ==
    \/ \E c \in Clients :
          \/ UpdateMetric(c) \/ UpdateMetrics(c) \/ Lock(c) \/ SetValue(c)
          \/ ReturnMismatch(c) \/ Return(c) \/ AnswerUpdate(c)
          \/ Get(c) \/ Lookup(c) \/ AnswerGet(c)
          \/ BeginPage(c) \/ EndRange(c) \/ AnswerPage(c)
          \/ ConcurrentMapFatal(c)
    \/ Dead

Spec == Init /\ [][Next]_vars

-----------------------------------------------------------------------------
(* Properties *)

\* What a handler knows of its update; reads are no part of the contract.
CallState(state) ==
    CASE state = "update" \/ state = "locked" -> "open"
      [] state \in {"applied", "failed"} -> state
      [] OTHER -> "idle"
Calls == [c \in Clients |-> CallState(pc[c])]

\* Batches of concurrent handlers take effect one at a time, an error leaves
\* exactly what comes before the first mismatch, and "ok" is the truth
\* (memstorage.go:63-86).
Prefix == INSTANCE PrefixBatches WITH
              store <- base,
              arg <- batch,
              call <- Calls
PrefixSpec == Prefix!Spec

\* The handlers that read without the lock (router.go:282, 442, 211) see of a
\* metric, while a batch is applied, the value from before it and then the
\* one it leaves, and no value changes between batches.
OneChangePerBatch ==
    [][\A id \in Ids : metrics'[id] # metrics[id] =>
          holder # Nobody /\ metrics[id] = base[id]]_vars

\* "rootHandler serves the root HTML page displaying all metrics"
\* (router.go:185): it never ends the process instead.
PageIsServed == alive

\* Goroutines that can run do; sync.RWMutex hands the lock to waiters in
\* turn, so that one that could have it again and again gets it.
Fairness ==
    \A c \in Clients :
        /\ SF_vars(Lock(c))
        /\ SF_vars(Lookup(c))
        /\ WF_vars(SetValue(c) \/ ReturnMismatch(c) \/ Return(c))
        /\ WF_vars(AnswerUpdate(c))
        /\ WF_vars(AnswerGet(c))
        /\ WF_vars(EndRange(c) \/ AnswerPage(c))

FairSpec == Spec /\ Fairness

\* Every request is answered, whatever the others do and whichever way their
\* calls return, as long as the process lives (memstorage.go:67).
RequestsEnd == \A c \in Clients : pc[c] # "idle" ~> (pc[c] = "idle" \/ ~alive)
=============================================================================
