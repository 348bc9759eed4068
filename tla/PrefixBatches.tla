---------------------------- MODULE PrefixBatches ----------------------------
(***************************************************************************)
(* What a handler can rely on when it updates the memory storage, which    *)
(* has no transactions: batches take effect one at a time, each at one     *)
(* moment.  "ok" means all of a batch; "error" means what comes before its *)
(* first metric of another type, and nothing after it.                     *)
(***************************************************************************)
EXTENDS MemoryRows

CONSTANTS Clients, Batches

VARIABLES
    store,   \* the metrics
    call,    \* "idle", "open", "applied" or "failed"
    arg,     \* the batch of a call
    answer   \* the last answer of a client

Init ==
    /\ store = [id \in Ids |-> NoRow]
    /\ call = [c \in Clients |-> "idle"]
    /\ arg = [c \in Clients |-> <<>>]
    /\ answer = [c \in Clients |-> "none"]

Begin(c) ==
    /\ call[c] = "idle"
    /\ call' = [call EXCEPT ![c] = "open"]
    /\ \E b \in Batches : arg' = [arg EXCEPT ![c] = b]
    /\ answer' = [answer EXCEPT ![c] = "none"]
    /\ UNCHANGED store

Apply(c) ==
    /\ call[c] = "open"
    /\ \E k \in 0 .. Len(arg[c]) :
          /\ StopsAfter(store, arg[c], k)
          /\ store' = MergedFirst(store, arg[c], k)
          /\ call' = [call EXCEPT ![c] = IF k = Len(arg[c]) THEN "applied"
                                         ELSE "failed"]
    /\ UNCHANGED <<arg, answer>>

Answer(c) ==
    /\ call[c] \in {"applied", "failed"}
    /\ answer' = [answer EXCEPT ![c] = IF call[c] = "applied" THEN "ok"
                                       ELSE "error"]
    /\ call' = [call EXCEPT ![c] = "idle"]
    /\ UNCHANGED <<store, arg>>

Next == \E c \in Clients : Begin(c) \/ Apply(c) \/ Answer(c)

Spec == Init /\ [][Next]_<<store, call, arg, answer>>
=============================================================================
