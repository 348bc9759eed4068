------------------------ MODULE RestTransportProofs ------------------------
(* Theorems about RestTransport, for any batches, workers and attempts. *)
EXTENDS RestTransport, TLAPS

-----------------------------------------------------------------------------
(* Types and control *)

\* A worker that posts has a batch, an attempt left, and one layer for each
\* attempt it has made.
Shape ==
    /\ \A w \in Workers :
          /\ pc[w] \in {"post", "wait"} => batch[w] \in Batches
          /\ pc[w] = "post" => attempt[w] < Attempts
          /\ pc[w] = "wait" => attempt[w] >= 1
          /\ layers[w] = attempt[w]
    /\ \A m \in net : m.layers = m.attempt

\* Every step keeps the types and the control invariant.
LEMMA NextTypes == TypeOK /\ Shape /\ [Next]_vars => TypeOK' /\ Shape'
<1> SUFFICES ASSUME TypeOK, Shape, [Next]_vars
             PROVE  TypeOK' /\ Shape'
  OBVIOUS
<1> USE RestConstants DEF worker, group, Fail
<1>1. ASSUME NEW w \in Workers, Take(w) PROVE TypeOK' /\ Shape'
  BY <1>1 DEF Take, TypeOK, Shape
<1>2. ASSUME NEW w \in Workers, Post(w) PROVE TypeOK' /\ Shape'
  <2> DEFINE m == [from |-> w, batch |-> batch[w], attempt |-> attempt[w] + 1,
                   layers |-> layers[w] + 1,
                   sum |-> IF conf.signs THEN layers[w] ELSE NoSum]
  <2>1. attempt[w] + 1 \in 1..Attempts /\ layers[w] \in Nat /\ batch[w] \in Batches
    BY <1>2 DEF Post, TypeOK, Shape
  <2>2. m \in Request
    BY <2>1 DEF Request
  <2>3. net' = net \cup {m} /\ m.layers = m.attempt
    BY <1>2, <2>1 DEF Post, Shape
  <2> HIDE DEF m
  <2>4. TypeOK'
    BY <1>2, <2>1, <2>2, <2>3 DEF Post, TypeOK
  <2>5. Shape'
    BY <1>2, <2>1, <2>3 DEF Post, TypeOK, Shape
  <2>6. QED
    BY <2>4, <2>5
<1>3. ASSUME NEW w \in Workers, TakeNone(w) \/ Accepted(w)
      PROVE  TypeOK' /\ Shape'
  BY <1>3 DEF TakeNone, Accepted, TypeOK, Shape
<1>4. ASSUME NEW w \in Workers, Retry(w) PROVE TypeOK' /\ Shape'
  BY <1>4 DEF Retry, TypeOK, Shape
<1>5. ASSUME NEW w \in Workers,
             EncryptFails(w) \/ GiveUp(w) \/ CancelledFails(w) \/ Rejected(w)
      PROVE  TypeOK' /\ Shape'
  BY <1>5 DEF EncryptFails, GiveUp, CancelledFails, Rejected, TypeOK, Shape
<1>6. ASSUME NEW m \in net, Serve(m) PROVE TypeOK' /\ Shape'
  <2>1. m.from \in Workers /\ m.batch \in Batches
    BY DEF TypeOK, Request
  <2>2. PICK s \in Statuses : Answer(m, s)
    BY <1>6 DEF Serve, Verdict, Statuses
  <2>3. answer' \in [Workers -> Statuses \cup {"none"}]
    BY <2>1, <2>2 DEF Answer, TypeOK
  <2>4. applied' \in [Batches -> Nat]
    BY <1>6, <2>1 DEF Serve, TypeOK
  <2>5. /\ UNCHANGED <<conf, jobs, worker, group, result>>
        /\ net' \subseteq net
    BY <1>6 DEF Serve
  <2>6. QED
    BY <2>3, <2>4, <2>5 DEF TypeOK, Shape
<1>7. ASSUME NEW m \in net, Lose(m) PROVE TypeOK' /\ Shape'
  BY <1>7 DEF Lose, TypeOK, Shape
<1>8. CASE Cancel \/ Return
  BY <1>8 DEF Cancel, Return, TypeOK, Shape
<1>9. CASE UNCHANGED vars
  BY <1>9 DEF vars, TypeOK, Shape
<1>10. QED
  BY <1>1, <1>2, <1>3, <1>4, <1>5, <1>6, <1>7, <1>8, <1>9
  DEF Next, WorkerStep, Returned

\* Every reachable state of SendMetrics is well typed: a worker never posts
\* without a batch, nor more often than it may (TypeOK, RestTransport).
THEOREM TransportTypes == Spec => [](TypeOK /\ Shape)
<1>1. Init => TypeOK /\ Shape
  <2> SUFFICES ASSUME Init PROVE TypeOK /\ Shape
    OBVIOUS
  <2>1. 0 \in 0..Attempts
    BY RestConstants
  <2>2. /\ pc \in [Workers -> {"take", "post", "wait", "done"}]
        /\ batch \in [Workers -> Batches \cup {NoBatch}]
        /\ layers \in [Workers -> Nat] /\ attempt \in [Workers -> 0..Attempts]
        /\ answer \in [Workers -> Statuses \cup {"none"}]
        /\ applied \in [Batches -> Nat]
    BY <2>1 DEF Init
  <2>3. QED
    BY <2>2 DEF Init, TypeOK, Shape
<1>2. QED
  BY <1>1, NextTypes, PTL DEF Spec

-----------------------------------------------------------------------------
(* At most once *)

\* A batch is with one worker at most; before its first attempt nothing of it
\* is on its way or applied; and its first attempt, the only one the server
\* can read, is a single request, which is gone once it is applied.
Once ==
    /\ \A b \in jobs :
          /\ applied[b] = 0
          /\ \A m \in net : m.batch # b
          /\ \A w \in Workers : batch[w] # b
    /\ \A w, v \in Workers : batch[w] = batch[v] /\ batch[w] # NoBatch => w = v
    /\ \A w \in Workers : attempt[w] = 0 /\ batch[w] # NoBatch =>
          /\ applied[batch[w]] = 0
          /\ \A m \in net : m.batch # batch[w]
    /\ \A m, n \in net :
          m.layers = 1 /\ n.layers = 1 /\ m.batch = n.batch => m = n
    /\ \A m \in net : m.layers = 1 => applied[m.batch] = 0
    /\ AtMostOnce

\* Once is inductive.
LEMMA NextOnce == TypeOK /\ Shape /\ Once /\ [Next]_vars => Once'
<1> SUFFICES ASSUME TypeOK, Shape, Once, [Next]_vars
             PROVE  Once'
  OBVIOUS
<1> USE RestConstants DEF worker, group, Fail, AtMostOnce
<1>1. ASSUME NEW w \in Workers, Take(w) PROVE Once'
  <2>1. PICK b \in jobs : /\ jobs' = jobs \ {b}
                          /\ batch' = [batch EXCEPT ![w] = b]
    BY <1>1 DEF Take
  <2>2. UNCHANGED <<net, applied>> /\ attempt' = [attempt EXCEPT ![w] = 0]
    BY <1>1 DEF Take
  <2>3. QED
    BY <2>1, <2>2 DEF TypeOK, Once
<1>2. ASSUME NEW w \in Workers, Post(w) PROVE Once'
  <2> DEFINE m == [from |-> w, batch |-> batch[w], attempt |-> attempt[w] + 1,
                   layers |-> layers[w] + 1,
                   sum |-> IF conf.signs THEN layers[w] ELSE NoSum]
  <2>1. /\ net' = net \cup {m}
        /\ m.batch = batch[w] /\ m.layers = attempt[w] + 1
    BY <1>2 DEF Post, Shape
  <2>2. /\ UNCHANGED <<jobs, batch, applied>>
        /\ attempt' = [attempt EXCEPT ![w] = @ + 1]
    BY <1>2 DEF Post
  <2>3. batch[w] \in Batches /\ attempt[w] \in Nat
    BY <1>2 DEF Post, Shape, TypeOK
  <2> HIDE DEF m
  <2>4. m.layers = 1 => /\ applied[batch[w]] = 0
                        /\ \A n \in net : n.batch # batch[w]
    BY <2>1, <2>3 DEF Once
  <2>5. \A b \in jobs : b # batch[w]
    BY DEF Once
  <2>6. \A v \in Workers : attempt'[v] = 0 /\ batch[v] # NoBatch =>
          v # w /\ attempt[v] = 0 /\ batch[v] # batch[w]
    BY <2>2, <2>3 DEF TypeOK, Once
  <2>7. QED
    BY <2>1, <2>2, <2>4, <2>5, <2>6 DEF Once
<1>3. ASSUME NEW w \in Workers, TakeNone(w) \/ Accepted(w)
      PROVE  Once'
  BY <1>3 DEF TakeNone, Accepted, TypeOK, Once
<1>4. ASSUME NEW w \in Workers,
             \/ Retry(w) \/ EncryptFails(w) \/ GiveUp(w)
             \/ CancelledFails(w) \/ Rejected(w)
      PROVE  Once'
  BY <1>4 DEF Retry, EncryptFails, GiveUp, CancelledFails, Rejected, Once
<1>5. ASSUME NEW m \in net, Serve(m) PROVE Once'
  <2>1. UNCHANGED <<jobs, batch, attempt>> /\ net' = net \ {m}
    BY <1>5 DEF Serve
  <2>2. CASE UNCHANGED applied
    BY <2>1, <2>2 DEF Once
  <2>3. CASE applied' = [applied EXCEPT ![m.batch] = @ + 1] /\ Verdict(m) = "ok"
    <3>1. m.layers = 1 /\ m.batch \in Batches
      BY <2>3 DEF Verdict, TypeOK, Request
    <3>2. /\ applied[m.batch] = 0
          /\ applied'[m.batch] = 1
          /\ \A b \in Batches \ {m.batch} : applied'[b] = applied[b]
      BY <2>3, <3>1 DEF Once, TypeOK
    <3>3. \A b \in jobs : b # m.batch
      BY DEF Once
    <3>4. \A w \in Workers : attempt[w] = 0 /\ batch[w] # NoBatch
                                => batch[w] # m.batch /\ batch[w] \in Batches
      BY DEF Once, TypeOK
    <3>5. \A n \in net' : n.layers = 1 => n.batch # m.batch /\ n.batch \in Batches
      BY <2>1, <3>1 DEF Once, TypeOK, Request
    <3>6. QED
      BY <2>1, <3>2, <3>3, <3>4, <3>5 DEF Once, TypeOK
  <2>4. QED
    BY <1>5, <2>2, <2>3 DEF Serve
<1>6. ASSUME NEW m \in net, Lose(m) PROVE Once'
  BY <1>6 DEF Lose, Once
<1>7. CASE Cancel \/ Return
  BY <1>7 DEF Cancel, Return, Once
<1>8. CASE UNCHANGED vars
  BY <1>8 DEF vars, Once
<1>9. QED
  BY <1>1, <1>2, <1>3, <1>4, <1>5, <1>6, <1>7, <1>8
  DEF Next, WorkerStep, Returned

\* Once holds in every reachable state.
LEMMA TransportOnce == Spec => []Once
<1>1. Init => Once
  BY RestConstants DEF Init, Once, AtMostOnce
<1>2. QED
  BY <1>1, NextOnce, TransportTypes, PTL DEF Spec

\* No batch is applied twice, whatever is retried, lost or delivered late, for
\* any configuration of the two sides (AtMostOnce).
THEOREM BatchesAtMostOnce == Spec => []AtMostOnce
<1>1. Once => AtMostOnce
  BY DEF Once
<1>2. QED
  BY <1>1, TransportOnce, PTL

-----------------------------------------------------------------------------
(* The contract of SendMetrics *)

\* Where a batch that was not applied is, unless a worker failed.
Pending ==
    /\ \A b \in Batches :
          \/ b \in jobs \/ failed \/ applied[b] >= 1
          \/ \E w \in Workers : batch[w] = b /\ pc[w] \in {"post", "wait"}
    /\ \A w \in Workers :
          pc[w] = "wait" /\ answer[w] = "ok" => applied[batch[w]] >= 1
    /\ \A w \in Workers : pc[w] = "done" => failed \/ jobs = {}
    /\ result = "ok" => \A b \in Batches : applied[b] >= 1

\* Pending is inductive when there is a worker.
LEMMA NextPending ==
    Workers # {} /\ TypeOK /\ Shape /\ Pending /\ [Next]_vars => Pending'
<1> SUFFICES ASSUME Workers # {}, TypeOK, Shape, Pending, [Next]_vars
             PROVE  Pending'
  OBVIOUS
<1> USE RestConstants DEF worker, group
<1>1. ASSUME NEW w \in Workers, Take(w) PROVE Pending'
  <2>1. PICK b \in jobs : /\ jobs' = jobs \ {b}
                          /\ batch' = [batch EXCEPT ![w] = b]
    BY <1>1 DEF Take
  <2>2. /\ pc[w] = "take" /\ pc' = [pc EXCEPT ![w] = "post"]
        /\ UNCHANGED <<answer, applied, failed, result>>
    BY <1>1 DEF Take
  <2>3. QED
    BY <2>1, <2>2 DEF TypeOK, Pending
<1>2. ASSUME NEW w \in Workers, TakeNone(w) PROVE Pending'
  BY <1>2 DEF TakeNone, TypeOK, Pending
<1>3. ASSUME NEW w \in Workers, Post(w) \/ Retry(w) PROVE Pending'
  BY <1>3 DEF Post, Retry, TypeOK, Pending
<1>4. ASSUME NEW w \in Workers, Accepted(w) PROVE Pending'
  <2>1. /\ pc[w] = "wait" /\ pc' = [pc EXCEPT ![w] = "take"]
        /\ batch' = [batch EXCEPT ![w] = NoBatch]
        /\ applied[batch[w]] >= 1
        /\ UNCHANGED <<jobs, answer, applied, failed, result>>
    BY <1>4 DEF Accepted, Pending
  <2>2. QED
    BY <2>1 DEF TypeOK, Pending
<1>5. ASSUME NEW w \in Workers,
             EncryptFails(w) \/ GiveUp(w) \/ CancelledFails(w) \/ Rejected(w)
      PROVE  Pending'
  <2>1. /\ failed' = TRUE
        /\ pc' = [pc EXCEPT ![w] = "done"]
        /\ UNCHANGED <<jobs, batch, answer, applied, result>>
    BY <1>5 DEF EncryptFails, GiveUp, CancelledFails, Rejected, Fail
  <2>2. QED
    BY <2>1 DEF TypeOK, Pending
<1>6. ASSUME NEW m \in net, Serve(m) PROVE Pending'
  <2>1. m.from \in Workers /\ m.batch \in Batches
    BY DEF TypeOK, Request
  <2>2. UNCHANGED <<jobs, pc, batch, failed, result>>
    BY <1>6 DEF Serve
  <2>3. /\ \A b \in Batches : applied[b] >= 1 => applied'[b] >= 1
        /\ applied \in [Batches -> Nat]
    BY <1>6, <2>1 DEF Serve, TypeOK
  <2>4. ASSUME NEW w \in Workers, pc[w] = "wait", answer'[w] = "ok"
        PROVE  applied'[batch[w]] >= 1
    <3>1. CASE answer[w] = "ok"
      BY <2>3, <2>4, <3>1 DEF Pending, Shape
    <3>2. CASE answer[w] # "ok"
      <4>1. PICK s \in Statuses :
              /\ Answer(m, s)
              /\ s = "ok" => applied' = [applied EXCEPT ![m.batch] = @ + 1]
        BY <1>6 DEF Serve, Verdict, Statuses
      <4>2. s = "ok" /\ w = m.from /\ batch[w] = m.batch
        BY <4>1, <2>1, <2>4, <3>2 DEF Answer, TypeOK
      <4>3. QED
        BY <4>1, <4>2, <2>1, <2>3
    <3>3. QED
      BY <3>1, <3>2
  <2>5. QED
    BY <2>2, <2>3, <2>4 DEF Pending
<1>7. ASSUME NEW m \in net, Lose(m) PROVE Pending'
  BY <1>7 DEF Lose, Pending
<1>8. CASE Cancel
  BY <1>8 DEF Cancel, Pending
<1>9. CASE Return
  <2>1. ~failed => jobs = {}
    BY <1>9 DEF Return, Pending
  <2>2. ~failed => \A b \in Batches : applied[b] >= 1
    BY <1>9, <2>1 DEF Return, Pending
  <2>3. QED
    BY <1>9, <2>2 DEF Return, Pending
<1>10. CASE UNCHANGED vars
  BY <1>10 DEF vars, Pending
<1>11. QED
  BY <1>1, <1>2, <1>3, <1>4, <1>5, <1>6, <1>7, <1>8, <1>9, <1>10
  DEF Next, WorkerStep, Returned

\* A step of SendMetrics delivers a batch, returns, or is silent.
LEMMA StepKeepsContract ==
    TypeOK /\ Once /\ Pending' /\ [Next]_vars
        => [Contract!Next]_<<{b \in Batches : applied[b] = 0},
                             IF result = "none" THEN "sending"
                             ELSE IF result = "ok" THEN "ok" ELSE "failed">>
<1> DEFINE Left == {b \in Batches : applied[b] = 0}
           Status == IF result = "none" THEN "sending"
                     ELSE IF result = "ok" THEN "ok" ELSE "failed"
<1> SUFFICES ASSUME TypeOK, Once, Pending', [Next]_vars
             PROVE  Contract!Next \/ (Left' = Left /\ Status' = Status)
  OBVIOUS
<1> USE DEF worker, group, Fail
<1>1. ASSUME NEW m \in net, Serve(m), applied' # applied
      PROVE  Contract!Next
  <2>1. /\ applied' = [applied EXCEPT ![m.batch] = @ + 1]
        /\ Verdict(m) = "ok" /\ result' = result
    BY <1>1 DEF Serve
  <2>2. m.layers = 1 /\ m.batch \in Batches
    BY <2>1 DEF Verdict, TypeOK, Request
  <2>3. applied[m.batch] = 0 /\ applied'[m.batch] = 1
    BY <2>1, <2>2 DEF Once, TypeOK
  <2>4. \A b \in Batches : b # m.batch => applied'[b] = applied[b]
    BY <2>1 DEF TypeOK
  <2>5. Left' = Left \ {m.batch} /\ {m.batch} \in (SUBSET Left) \ {{}}
    BY <2>2, <2>3, <2>4
  <2>6. QED
    BY <2>1, <2>5 DEF Contract!Next, Contract!Deliver
<1>2. CASE Return
  <2>1. applied' = applied /\ result = "none"
    BY <1>2 DEF Return
  <2>2. CASE failed
    BY <1>2, <2>1, <2>2 DEF Return, Contract!Next, Contract!Fail
  <2>3. CASE ~failed
    <3>1. result' = "ok"
      BY <1>2, <2>3 DEF Return
    <3>2. Left = {}
      BY <2>1, <3>1 DEF Pending, TypeOK
    <3>3. QED
      BY <2>1, <3>1, <3>2 DEF Contract!Next, Contract!Succeed
  <2>4. QED
    BY <2>2, <2>3
<1>3. ASSUME UNCHANGED <<applied, result>>
      PROVE  Left' = Left /\ Status' = Status
  BY <1>3
<1>4. ASSUME NEW w \in Workers, WorkerStep(w)
      PROVE  UNCHANGED <<applied, result>>
  BY <1>4 DEF WorkerStep, Take, TakeNone, Post, EncryptFails, Retry, GiveUp,
              CancelledFails, Accepted, Rejected
<1>5. ASSUME NEW m \in net, Serve(m) \/ Lose(m) PROVE UNCHANGED result
  BY <1>5 DEF Serve, Lose
<1>6. ASSUME NEW m \in net, Lose(m) PROVE UNCHANGED applied
  BY <1>6 DEF Lose
<1>7. ASSUME Cancel \/ UNCHANGED vars PROVE UNCHANGED <<applied, result>>
  BY <1>7 DEF Cancel, vars
<1>8. QED
  BY <1>1, <1>2, <1>3, <1>4, <1>5, <1>6, <1>7 DEF Next, Returned

\* With a rate limit of at least one SendMetrics keeps its contract: it
\* returns nil only when every batch was applied (ContractSpec).
THEOREM TransportKeepsContract ==
    ASSUME Workers # {}
    PROVE  Spec => ContractSpec
<1>1. Init => Contract!Init
  BY DEF Init, Contract!Init
<1>2. Init => Pending
  BY DEF Init, Pending
<1>3. TypeOK /\ Shape /\ Pending /\ [Next]_vars => Pending'
  BY NextPending
<1>4. Spec => []Pending
  BY <1>2, <1>3, TransportTypes, PTL DEF Spec
<1>5. QED
  BY <1>1, <1>4, StepKeepsContract, TransportTypes, TransportOnce, PTL
  DEF Spec, ContractSpec, Contract!Spec

\* With a rate limit of at least one, nil means that the server applied every
\* batch exactly once, retries or not, and that nothing is left that could be
\* applied later (transport_rest.go:66, 124).
THEOREM SuccessIsExactlyOnce ==
    ASSUME Workers # {}
    PROVE  Spec => [](result = "ok" =>
                          \A b \in Batches : applied[b] = 1)
<1> DEFINE Ok == result = "ok" => \A b \in Batches : applied[b] = 1
<1>1. Init => Pending
  BY DEF Init, Pending
<1>2. TypeOK /\ Shape /\ Pending /\ [Next]_vars => Pending'
  BY NextPending
<1>3. TypeOK /\ Once /\ Pending => Ok
  <2>1. ASSUME TypeOK, Once, Pending, result = "ok", NEW b \in Batches
        PROVE  applied[b] = 1
    <3>1. applied[b] \in Nat /\ applied[b] <= 1 /\ applied[b] >= 1
      BY <2>1 DEF TypeOK, Once, AtMostOnce, Pending
    <3>2. QED
      BY <3>1
  <2>2. QED
    BY <2>1
<1> HIDE DEF Ok
<1>4. Spec => []Ok
  BY <1>1, <1>2, <1>3, TransportTypes, TransportOnce, PTL DEF Spec
<1>5. QED
  BY <1>4 DEF Ok

-----------------------------------------------------------------------------
(* What is applied *)

\* A request carries the checksum of the body it had one layer before, if the
\* agent signs, and a batch that RSA could encrypt, if the agent encrypts.
Sealed ==
    \A m \in net : /\ m.sum = IF conf.signs THEN m.layers - 1 ELSE NoSum
                   /\ conf.encrypts => m.batch \notin Big

\* Sealed is inductive, and the configurations do not change.
LEMMA NextSealed ==
    TypeOK /\ Shape /\ Sealed /\ [Next]_vars => Sealed' /\ conf' = conf
<1> SUFFICES ASSUME TypeOK, Shape, Sealed, [Next]_vars
             PROVE  Sealed' /\ conf' = conf
  OBVIOUS
<1>1. conf' = conf
  BY DEF Next, vars, WorkerStep, Take, TakeNone, Post, EncryptFails, Retry,
         GiveUp, CancelledFails, Accepted, Rejected, Fail, Serve, Lose, Cancel,
         Return, Returned
<1>2. ASSUME NEW w \in Workers, Post(w) PROVE Sealed'
  <2> DEFINE m == [from |-> w, batch |-> batch[w], attempt |-> attempt[w] + 1,
                   layers |-> layers[w] + 1,
                   sum |-> IF conf.signs THEN layers[w] ELSE NoSum]
  <2>1. net' = net \cup {m} /\ (conf.encrypts => batch[w] \notin Big)
    BY <1>2 DEF Post, Encryptable
  <2>2. layers[w] \in Nat
    BY DEF TypeOK
  <2>3. /\ m.sum = IF conf.signs THEN m.layers - 1 ELSE NoSum
        /\ m.batch = batch[w]
    BY <2>2
  <2> HIDE DEF m
  <2>4. QED
    BY <1>1, <2>1, <2>3 DEF Sealed
<1>3. ASSUME net' \subseteq net PROVE Sealed'
  BY <1>1, <1>3 DEF Sealed
<1>4. QED
  BY <1>1, <1>2, <1>3
  DEF Next, vars, WorkerStep, Take, TakeNone, EncryptFails, Retry, GiveUp,
      CancelledFails, Accepted, Rejected, Fail, Serve, Lose, Cancel, Return,
      Returned

\* A batch is applied only by a server without a secret.
Unverified == \A b \in Batches : applied[b] > 0 => ~conf.verifies

\* What the server applies satisfies every check, which says what the two
\* configurations were.
LEMMA NextApplied ==
    TypeOK /\ Shape /\ Sealed /\ AppliedWhenConfigured /\ Unverified
        /\ [Next]_vars => AppliedWhenConfigured' /\ Unverified'
<1> SUFFICES ASSUME TypeOK, Shape, Sealed, AppliedWhenConfigured, Unverified,
                    [Next]_vars
             PROVE  AppliedWhenConfigured' /\ Unverified'
  OBVIOUS
<1>1. conf' = conf
  BY NextSealed
<1>2. ASSUME UNCHANGED applied PROVE AppliedWhenConfigured' /\ Unverified'
  BY <1>1, <1>2 DEF AppliedWhenConfigured, Unverified
<1>3. ASSUME NEW m \in net, Serve(m)
      PROVE  AppliedWhenConfigured' /\ Unverified'
  <2>1. CASE applied' = [applied EXCEPT ![m.batch] = @ + 1] /\ Verdict(m) = "ok"
    <3>1. /\ m.layers = 1 /\ conf.trusted
          /\ conf.verifies => m.sum = m.layers
          /\ conf.encrypts => conf.decrypts
      BY <2>1 DEF Verdict
    <3>2. m.sum # m.layers
      BY <3>1, RestConstants DEF Sealed
    <3>3. conf.encrypts => m.batch \notin Big
      BY DEF Sealed
    <3>4. \A b \in Batches : b # m.batch => applied'[b] = applied[b]
      BY <2>1 DEF TypeOK
    <3>5. QED
      BY <1>1, <3>1, <3>2, <3>3, <3>4 DEF AppliedWhenConfigured, Unverified
  <2>2. QED
    BY <1>2, <1>3, <2>1 DEF Serve
<1>4. QED
  BY <1>2, <1>3
  DEF Next, vars, WorkerStep, Take, TakeNone, Post, EncryptFails, Retry,
      GiveUp, CancelledFails, Accepted, Rejected, Fail, Lose, Cancel, Return,
      Returned

\* Both hold in every reachable state.
LEMMA TransportApplied == Spec => [](AppliedWhenConfigured /\ Unverified)
<1>1. Init => Sealed /\ AppliedWhenConfigured /\ Unverified
  BY DEF Init, Sealed, AppliedWhenConfigured, Unverified
<1>2. QED
  BY <1>1, NextSealed, NextApplied, TransportTypes, PTL DEF Spec

\* For any configuration of the two sides, what is applied came from an agent
\* that does what the server asks for (AppliedWhenConfigured).
THEOREM AppliedAsConfigured == Spec => []AppliedWhenConfigured
BY TransportApplied, PTL

\* The whole extent of the finding about signatures: a server with a secret
\* applies no report of the REST transport at all, whatever secret the agent
\* has and however often it tries, since no checksum is of the body it is
\* sent with (transport_rest.go:73, middleware.go:230).
THEOREM VerifyingServerAppliesNothing ==
    Spec => [](conf.verifies => \A b \in Batches : applied[b] = 0)
<1> DEFINE Nothing == conf.verifies => \A b \in Batches : applied[b] = 0
<1>1. TypeOK /\ Unverified => Nothing
  <2>1. ASSUME TypeOK, Unverified, conf.verifies, NEW b \in Batches
        PROVE  applied[b] = 0
    <3>1. applied[b] \in Nat /\ ~(applied[b] > 0)
      BY <2>1 DEF TypeOK, Unverified
    <3>2. QED
      BY <3>1
  <2>2. QED
    BY <2>1
<1> HIDE DEF Nothing
<1>2. Spec => []Nothing
  BY <1>1, TransportApplied, TransportTypes, PTL DEF Spec
<1>3. QED
  BY <1>2 DEF Nothing
=============================================================================
