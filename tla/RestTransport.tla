--------------------------- MODULE RestTransport ---------------------------
(***************************************************************************)
(* One call of RESTTransport.SendMetrics (internal/agent/transport_rest.go) *)
(* and the server's pipeline for POST /updates/ (internal/router).         *)
(*                                                                         *)
(* Workers take batches from a closed channel.  Each posts its batch       *)
(* through one resty request, whose middlewares run again for every        *)
(* attempt and change the body in place; a transport error or a timeout is *)
(* retried, an answer that is not 200 is not.  The network may lose a      *)
(* request, or deliver it after the client has stopped waiting.            *)
(*                                                                         *)
(* Data abstraction.  A body is the number of layers, of gzip or of RSA,   *)
(* around the JSON of its batch; a checksum is the body it was made from.  *)
(***************************************************************************)
EXTENDS Integers

CONSTANTS
    Batches,     \* batches of at most ten metrics
    Big,         \* those whose JSON is longer than RSA can encrypt
    Workers,     \* one for each unit of the rate limit, which may be 0
    Attempts,    \* a first one and RetryCount retries
    NoBatch,     \* a worker has no batch
    NoSum        \* a request without HashSHA256

ASSUME RestConstants ==
    /\ Big \subseteq Batches
    /\ NoBatch \notin Batches
    /\ Attempts \in Nat \ {0}
    /\ NoSum \notin Nat

VARIABLES
    conf,      \* the configurations of the agent and of the server
    jobs,      \* batches in the channel
    pc,        \* control state of each worker
    batch,     \* the batch it took
    layers,    \* body of its request
    attempt,   \* the attempts it has made
    answer,    \* the answer that arrived for its last attempt
    net,       \* requests on their way
    applied,   \* how often the server applied a batch
    cancelled, \* the errgroup's context is done
    failed,    \* a worker returned an error
    result     \* what SendMetrics returned

worker == <<pc, batch, layers, attempt>>
group == <<cancelled, failed>>
vars == <<conf, jobs, worker, answer, net, applied, group, result>>

\* signs, encrypts: the agent has a secret, a public key; verifies, decrypts:
\* the server has the same secret, the private key; trusted: the agent's
\* address is in the server's subnet, or the server has none.
Config == [signs : BOOLEAN, encrypts : BOOLEAN, verifies : BOOLEAN,
           decrypts : BOOLEAN, trusted : BOOLEAN]

Request == [from : Workers, batch : Batches, attempt : 1..Attempts,
            layers : Nat, sum : Nat \cup {NoSum}]

Statuses == {"ok", "forbidden", "checksum", "body", "storage"}

TypeOK ==
    /\ conf \in Config
    /\ jobs \in SUBSET Batches
    /\ pc \in [Workers -> {"take", "post", "wait", "done"}]
    /\ batch \in [Workers -> Batches \cup {NoBatch}]
    /\ layers \in [Workers -> Nat]
    /\ attempt \in [Workers -> 0..Attempts]
    /\ answer \in [Workers -> Statuses \cup {"none"}]
    /\ net \in SUBSET Request
    /\ applied \in [Batches -> Nat]
    /\ cancelled \in BOOLEAN /\ failed \in BOOLEAN
    /\ result \in {"none", "ok", "error"}

Init ==
    /\ conf \in Config
    /\ jobs = Batches
    /\ pc = [w \in Workers |-> "take"]
    /\ batch = [w \in Workers |-> NoBatch]
    /\ layers = [w \in Workers |-> 0]
    /\ attempt = [w \in Workers |-> 0]
    /\ answer = [w \in Workers |-> "none"]
    /\ net = {}
    /\ applied = [b \in Batches |-> 0]
    /\ cancelled = FALSE /\ failed = FALSE
    /\ result = "none"

-----------------------------------------------------------------------------
(* A worker *)

\* The next batch of the channel, marshalled: a request that was not sent.
Take(w) ==
    /\ pc[w] = "take"
    /\ \E b \in jobs :
          /\ jobs' = jobs \ {b}
          /\ batch' = [batch EXCEPT ![w] = b]
    /\ layers' = [layers EXCEPT ![w] = 0]
    /\ attempt' = [attempt EXCEPT ![w] = 0]
    /\ pc' = [pc EXCEPT ![w] = "post"]
    /\ UNCHANGED <<conf, answer, net, applied, group, result>>

TakeNone(w) ==
    /\ pc[w] = "take"
    /\ jobs = {}
    /\ pc' = [pc EXCEPT ![w] = "done"]
    /\ batch' = [batch EXCEPT ![w] = NoBatch]
    /\ UNCHANGED <<conf, jobs, layers, attempt, answer, net, applied, group,
                   result>>

\* A worker returns an error, which cancels the others.
Fail(w) ==
    /\ pc' = [pc EXCEPT ![w] = "done"]
    /\ failed' = TRUE
    /\ cancelled' = TRUE
    /\ UNCHANGED <<conf, jobs, batch, layers, attempt, answer, net, applied,
                   result>>

\* RSA takes a short text, and nothing that went through it before.
Encryptable(w) == batch[w] \notin Big /\ layers[w] = 0

\* Mutant: a body that is compressed is not compressed again.
PostCompressedOnce(w) ==
    /\ pc[w] = "post"
    /\ ~cancelled
    /\ conf.encrypts => Encryptable(w)
    /\ layers' = [layers EXCEPT ![w] = 1]
    /\ attempt' = [attempt EXCEPT ![w] = @ + 1]
    /\ net' = net \cup
         {[from |-> w, batch |-> batch[w], attempt |-> attempt[w] + 1,
           layers |-> 1, sum |-> IF conf.signs THEN layers[w] ELSE NoSum]}
    /\ answer' = [answer EXCEPT ![w] = "none"]
    /\ pc' = [pc EXCEPT ![w] = "wait"]
    /\ UNCHANGED <<conf, jobs, batch, applied, group, result>>

\* An attempt: the checksum of the body as it is, then one more layer.
Post(w) ==
    /\ pc[w] = "post"
    /\ ~cancelled
    /\ conf.encrypts => Encryptable(w)
    /\ layers' = [layers EXCEPT ![w] = @ + 1]
    /\ attempt' = [attempt EXCEPT ![w] = @ + 1]
    /\ net' = net \cup
         {[from |-> w, batch |-> batch[w], attempt |-> attempt[w] + 1,
           layers |-> layers[w] + 1,
           sum |-> IF conf.signs THEN layers[w] ELSE NoSum]}
    /\ answer' = [answer EXCEPT ![w] = "none"]
    /\ pc' = [pc EXCEPT ![w] = "wait"]
    /\ UNCHANGED <<conf, jobs, batch, applied, group, result>>

\* The text is too long, or the key cannot be read: the error of a middleware
\* is not retried.
EncryptFails(w) ==
    /\ pc[w] = "post"
    /\ conf.encrypts
    /\ Fail(w)

\* Mutant: one attempt too many.
RetryOnceMore(w) ==
    /\ pc[w] = "wait"
    /\ attempt[w] <= Attempts
    /\ ~cancelled
    /\ pc' = [pc EXCEPT ![w] = "post"]
    /\ UNCHANGED <<conf, jobs, batch, layers, attempt, answer, net, applied,
                   group, result>>

\* Mutant: the client has no timeout.
RetryAnswered(w) ==
    /\ pc[w] = "wait"
    /\ answer[w] # "none"
    /\ attempt[w] < Attempts
    /\ ~cancelled
    /\ pc' = [pc EXCEPT ![w] = "post"]
    /\ UNCHANGED <<conf, jobs, batch, layers, attempt, answer, net, applied,
                   group, result>>

\* No answer in time, or no connection: the request is retried.
Retry(w) ==
    /\ pc[w] = "wait"
    /\ attempt[w] < Attempts
    /\ ~cancelled
    /\ pc' = [pc EXCEPT ![w] = "post"]
    /\ UNCHANGED <<conf, jobs, batch, layers, attempt, answer, net, applied,
                   group, result>>

\* Mutant: a batch that was not answered is skipped.
GiveUpSilently(w) ==
    /\ pc[w] = "wait"
    /\ attempt[w] = Attempts
    /\ pc' = [pc EXCEPT ![w] = "take"]
    /\ batch' = [batch EXCEPT ![w] = NoBatch]
    /\ UNCHANGED <<conf, jobs, layers, attempt, answer, net, applied, group,
                   result>>

GiveUp(w) ==
    /\ pc[w] = "wait"
    /\ attempt[w] = Attempts
    /\ Fail(w)

\* The context ends a request, and the wait before a retry.
CancelledFails(w) ==
    /\ pc[w] \in {"post", "wait"}
    /\ cancelled
    /\ Fail(w)

Accepted(w) ==
    /\ pc[w] = "wait"
    /\ answer[w] = "ok"
    /\ pc' = [pc EXCEPT ![w] = "take"]
    /\ batch' = [batch EXCEPT ![w] = NoBatch]
    /\ UNCHANGED <<conf, jobs, layers, attempt, answer, net, applied, group,
                   result>>

Rejected(w) ==
    /\ pc[w] = "wait"
    /\ answer[w] \notin {"none", "ok"}
    /\ Fail(w)

-----------------------------------------------------------------------------
(* The server *)

\* Mutant: a request without a checksum is not checked.
VerdictUnsignedPasses(m) ==
    IF ~conf.trusted THEN "forbidden"
    ELSE IF conf.verifies /\ m.sum \notin {NoSum, m.layers} THEN "checksum"
    ELSE IF conf.encrypts /\ ~conf.decrypts THEN "body"
    ELSE IF m.layers # 1 THEN "body"
    ELSE "ok"

\* verifySubnetMiddleware, checksumMiddleware, decompressMiddleware,
\* decryptMiddleware and updatesHandler's decoding, in this order: one layer
\* is taken off, and what is left has to be the JSON of the batch.
Verdict(m) ==
    IF ~conf.trusted THEN "forbidden"
    ELSE IF conf.verifies /\ m.sum # m.layers THEN "checksum"
    ELSE IF conf.encrypts /\ ~conf.decrypts THEN "body"
    ELSE IF m.layers # 1 THEN "body"
    ELSE "ok"

\* An answer reaches the worker only while it waits for that attempt.
Answer(m, status) ==
    answer' = IF /\ pc[m.from] = "wait"
                 /\ batch[m.from] = m.batch
                 /\ attempt[m.from] = m.attempt
              THEN [answer EXCEPT ![m.from] = status]
              ELSE answer

\* The request may arrive at any time, also when nobody waits for it.
Serve(m) ==
    /\ m \in net
    /\ net' = net \ {m}
    /\ IF Verdict(m) = "ok"
       THEN \/ /\ applied' = [applied EXCEPT ![m.batch] = @ + 1]
               /\ Answer(m, "ok")
            \/ UNCHANGED applied /\ Answer(m, "storage")
       ELSE UNCHANGED applied /\ Answer(m, Verdict(m))
    /\ UNCHANGED <<conf, jobs, worker, group, result>>

Lose(m) ==
    /\ m \in net
    /\ net' = net \ {m}
    /\ UNCHANGED <<conf, jobs, worker, answer, applied, group, result>>

-----------------------------------------------------------------------------
(* SendMetrics *)

\* The agent is stopped, or another of its goroutines failed.
Cancel ==
    /\ ~cancelled
    /\ cancelled' = TRUE
    /\ UNCHANGED <<conf, jobs, worker, answer, net, applied, failed, result>>

\* g.Wait
Return ==
    /\ result = "none"
    /\ \A w \in Workers : pc[w] = "done"
    /\ result' = IF failed THEN "error" ELSE "ok"
    /\ UNCHANGED <<conf, jobs, worker, answer, net, applied, group>>

Returned ==
    /\ result # "none"
    /\ UNCHANGED vars

WorkerStep(w) ==
    \/ Take(w) \/ TakeNone(w) \/ Post(w) \/ EncryptFails(w)
    \/ Retry(w) \/ GiveUp(w) \/ CancelledFails(w)
    \/ Accepted(w) \/ Rejected(w)

Next ==
    \/ \E w \in Workers : WorkerStep(w)
    \/ \E m \in net : Serve(m) \/ Lose(m)
    \/ Cancel \/ Return \/ Returned

Spec == Init /\ [][Next]_vars

-----------------------------------------------------------------------------
(* Properties *)

\* A batch is never applied twice, although a request whose answer is late is
\* sent again: a second attempt carries a body the server cannot read
\* (transport_rest.go:66, 191).
AtMostOnce == \A b \in Batches : applied[b] <= 1

\* Whatever was applied came from an agent in the subnet that signs if the
\* server has a secret and, if it encrypts, fits one RSA block that the server
\* can read, also when it arrived late (middleware.go:200, 266).
AppliedWhenConfigured ==
    \A b \in Batches : applied[b] > 0 =>
        /\ conf.trusted
        /\ conf.verifies => conf.signs
        /\ conf.encrypts => conf.decrypts /\ b \notin Big

\* SendMetrics keeps the contract the reporter relies on, for a rate limit of
\* at least one: in particular nothing is applied after it returned nil.
Contract == INSTANCE SendContract WITH
                left <- {b \in Batches : applied[b] = 0},
                status <- IF result = "none" THEN "sending"
                          ELSE IF result = "ok" THEN "ok" ELSE "failed"
ContractSpec == Contract!Spec

\* What "секретный ключ для подписи сообщений" promises of an agent and a
\* server that are given the same secret (config.go:105, 253): a
\* report is not refused for its signature.
SignedReportsAccepted ==
    conf.signs /\ conf.verifies
        => \A w \in Workers : answer[w] # "checksum"

\* Workers run, and g.Wait returns; nothing is assumed of the network and the
\* server, since the client has a timeout.
Fairness ==
    /\ \A w \in Workers : WF_vars(WorkerStep(w))
    /\ WF_vars(Return)

FairSpec == Spec /\ Fairness

\* SendMetrics returns, whatever the network and the server do.
Terminates == <>(result # "none")
=============================================================================
