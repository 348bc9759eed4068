---------------------------- MODULE AtomicBatches ----------------------------
(***************************************************************************)
(* What a handler relies on when it updates a repository that has          *)
(* transactions: a batch is applied as a whole and at one moment, or not   *)
(* at all.  "ok" is answered for a single metric only after that.  For a   *)
(* batch "ok" says that it could be applied, and it is lost only if the    *)
(* transaction ends between its last statement and its commit.  An error   *)
(* may be answered for a batch that is applied, also later.                *)
(***************************************************************************)
EXTENDS MetricRows

CONSTANTS Clients, Batches

VARIABLES
    store,   \* the metrics
    call,    \* "idle", "open", "applied", "failed", "lost" although it could
             \* be applied, or "left": answered early
    arg,     \* the batch of a call
    method,  \* how it was handed over
    answer   \* the last answer of a client

Init ==
    /\ store = [id \in Ids |-> NoRow]
    /\ call = [c \in Clients |-> "idle"]
    /\ arg = [c \in Clients |-> <<>>]
    /\ method = [c \in Clients |-> "SetOrUpdateMetric"]
    /\ answer = [c \in Clients |-> "none"]

Begin(c) ==
    /\ call[c] = "idle"
    /\ call' = [call EXCEPT ![c] = "open"]
    /\ \E b \in Batches, m \in {"SetOrUpdateMetric", "SetOrUpdateMetricBatch"} :
          /\ m = "SetOrUpdateMetric" => Len(b) = 1
          /\ arg' = [arg EXCEPT ![c] = b]
          /\ method' = [method EXCEPT ![c] = m]
    /\ answer' = [answer EXCEPT ![c] = "none"]
    /\ UNCHANGED store

Ended(c, outcome) ==
    call' = [call EXCEPT ![c] = IF @ = "left" THEN "idle" ELSE outcome]

Apply(c) ==
    /\ call[c] \in {"open", "left"}
    /\ Applicable(store, arg[c])
    /\ store' = After(store, arg[c])
    /\ Ended(c, "applied")
    /\ UNCHANGED <<arg, method, answer>>

Drop(c) ==
    /\ call[c] \in {"open", "left"}
    /\ Ended(c, "failed")
    /\ UNCHANGED <<store, arg, method, answer>>

\* A batch of which nothing is refused.
CanPass(c) ==
    /\ method[c] = "SetOrUpdateMetricBatch"
    /\ Applicable(store, arg[c])

Lose(c) ==
    /\ call[c] \in {"open", "left"}
    /\ CanPass(c)
    /\ Ended(c, "lost")
    /\ UNCHANGED <<store, arg, method, answer>>

Heard == [applied |-> {"ok"}, failed |-> {"error"}, lost |-> {"ok", "error"}]

Answer(c) ==
    /\ call[c] \in {"applied", "failed", "lost"}
    /\ \E said \in Heard[call[c]] : answer' = [answer EXCEPT ![c] = said]
    /\ call' = [call EXCEPT ![c] = "idle"]
    /\ UNCHANGED <<store, arg, method>>

AnswerEarly(c) ==
    /\ call[c] \in {"open", "applied"}
    /\ \E said \in {"ok", "error"} :
          /\ said = "ok" => call[c] = "applied" \/ CanPass(c)
          /\ answer' = [answer EXCEPT ![c] = said]
    /\ call' = [call EXCEPT ![c] = IF @ = "open" THEN "left" ELSE "idle"]
    /\ UNCHANGED <<store, arg, method>>

Next ==
    \E c \in Clients :
        Begin(c) \/ Apply(c) \/ Drop(c) \/ Lose(c) \/ Answer(c) \/ AnswerEarly(c)

Spec == Init /\ [][Next]_<<store, call, arg, method, answer>>

\* "ok" is the truth.
Truthful == \A c \in Clients :
    answer[c] # "ok" /\ answer'[c] = "ok" => call[c] = "applied"
TruthfulSpec == Spec /\ [][Truthful]_answer
=============================================================================
