------------------------ MODULE AgentPipelineProofs ------------------------
(* Theorems about AgentPipeline, for every set of pollers, capacity and bound. *)
EXTENDS AgentPipeline, TLAPS

-----------------------------------------------------------------------------
(* Queues of metrics *)

\* Appending a metric adds what it counts, and keeps a queue whose metrics
\* count different polls so.
LEMMA QueueAppend ==
    ASSUME NEW q \in Seq(Metric), NEW m \in Metric
    PROVE  /\ Append(q, m) \in Seq(Metric)
           /\ InQueue(Append(q, m)) = InQueue(q) \cup m.delta
           /\ Separate(q) /\ m.delta \cap InQueue(q) = {}
                => Separate(Append(q, m))
<1> DEFINE r == Append(q, m)
<1>1. /\ r \in Seq(Metric)
      /\ Len(r) = Len(q) + 1
      /\ \A i \in 1..Len(q) : r[i] = q[i]
      /\ r[Len(q) + 1] = m
  OBVIOUS
<1>2. Len(q) \in Nat
  OBVIOUS
<1> HIDE DEF r
<1>3. InQueue(r) = InQueue(q) \cup m.delta
  <2>1. ASSUME NEW t \in InQueue(r) PROVE t \in InQueue(q) \cup m.delta
    <3>1. PICK i \in 1..Len(r) : t \in r[i].delta
      BY <2>1 DEF InQueue
    <3>2. CASE i = Len(q) + 1
      BY <1>1, <3>1, <3>2
    <3>3. CASE i # Len(q) + 1
      <4>1. i \in 1..Len(q)
        BY <1>1, <1>2, <3>1, <3>3
      <4>2. QED
        BY <4>1, <1>1, <3>1 DEF InQueue
    <3>4. QED
      BY <3>2, <3>3
  <2>2. ASSUME NEW t \in InQueue(q) PROVE t \in InQueue(r)
    <3>1. PICK i \in 1..Len(q) : t \in q[i].delta
      BY <2>2 DEF InQueue
    <3>2. i \in 1..Len(r) /\ r[i] = q[i]
      BY <1>1, <1>2
    <3>3. QED
      BY <3>1, <3>2 DEF InQueue
  <2>3. m.delta \subseteq InQueue(r)
    <3>1. Len(q) + 1 \in 1..Len(r)
      BY <1>1, <1>2
    <3>2. QED
      BY <3>1, <1>1 DEF InQueue
  <2>4. QED
    BY <2>1, <2>2, <2>3
<1>4. ASSUME Separate(q), m.delta \cap InQueue(q) = {}
      PROVE  Separate(r)
  <2>1. SUFFICES ASSUME NEW i \in 1..Len(r), NEW j \in 1..Len(r), i # j
                 PROVE  r[i].delta \cap r[j].delta = {}
    BY DEF Separate
  <2>2. \A k \in 1..Len(q) : m.delta \cap q[k].delta = {}
    BY <1>4 DEF InQueue
  <2>3. CASE i \in 1..Len(q) /\ j \in 1..Len(q)
    BY <2>1, <2>3, <1>4, <1>1 DEF Separate
  <2>4. CASE i = Len(q) + 1 /\ j \in 1..Len(q)
    BY <2>4, <2>2, <1>1
  <2>5. CASE j = Len(q) + 1 /\ i \in 1..Len(q)
    BY <2>5, <2>2, <1>1
  <2>6. QED
    BY <2>1, <2>3, <2>4, <2>5, <1>1, <1>2
<1>5. QED
  BY <1>1, <1>3, <1>4 DEF r

\* Taking the head off a queue takes exactly what the head counts.
LEMMA QueueTail ==
    ASSUME NEW q \in Seq(Metric), q # <<>>
    PROVE  /\ Tail(q) \in Seq(Metric)
           /\ Head(q) \in Metric
           /\ InQueue(q) = Head(q).delta \cup InQueue(Tail(q))
           /\ Separate(q) => /\ Separate(Tail(q))
                             /\ Head(q).delta \cap InQueue(Tail(q)) = {}
<1> DEFINE r == Tail(q)
           n == Len(q)
<1>1. /\ r \in Seq(Metric)
      /\ Head(q) \in Metric
      /\ n \in Nat \ {0}
      /\ Len(r) = n - 1
      /\ \A i \in 1..(n - 1) : r[i] = q[i + 1]
      /\ Head(q) = q[1]
  OBVIOUS
<1> HIDE DEF r, n
<1>2. InQueue(q) = Head(q).delta \cup InQueue(r)
  <2>1. ASSUME NEW t \in InQueue(q) PROVE t \in Head(q).delta \cup InQueue(r)
    <3>1. PICK i \in 1..n : t \in q[i].delta
      BY <2>1 DEF InQueue, n
    <3>2. CASE i = 1
      BY <1>1, <3>1, <3>2
    <3>3. CASE i # 1
      <4>1. i - 1 \in 1..Len(r) /\ r[i - 1] = q[i]
        BY <1>1, <3>1, <3>3
      <4>2. QED
        BY <4>1, <3>1 DEF InQueue
    <3>4. QED
      BY <3>2, <3>3
  <2>2. ASSUME NEW t \in InQueue(r) PROVE t \in InQueue(q)
    <3>1. PICK i \in 1..Len(r) : t \in r[i].delta
      BY <2>2 DEF InQueue
    <3>2. i + 1 \in 1..n /\ r[i] = q[i + 1]
      BY <1>1
    <3>3. QED
      BY <3>1, <3>2 DEF InQueue, n
  <2>3. Head(q).delta \subseteq InQueue(q)
    <3>1. 1 \in 1..n
      BY <1>1
    <3>2. QED
      BY <3>1, <1>1 DEF InQueue, n
  <2>4. QED
    BY <2>1, <2>2, <2>3
<1>3. ASSUME Separate(q)
      PROVE  Separate(r) /\ Head(q).delta \cap InQueue(r) = {}
  <2>1. \A i, j \in 1..n : i # j => q[i].delta \cap q[j].delta = {}
    BY <1>3 DEF Separate, n
  <2>2. \A i \in 1..Len(r) : i + 1 \in 1..n /\ i + 1 # 1 /\ r[i] = q[i + 1]
    BY <1>1
  <2>3. \A i, j \in 1..Len(r) : i # j => i + 1 # j + 1
    BY <1>1
  <2>4. Separate(r)
    BY <2>1, <2>2, <2>3 DEF Separate
  <2>5. \A i \in 1..Len(r) : Head(q).delta \cap r[i].delta = {}
    <3>1. 1 \in 1..n
      BY <1>1
    <3>2. QED
      BY <3>1, <2>1, <2>2, <1>1
  <2>6. QED
    BY <2>4, <2>5 DEF InQueue
<1>4. QED
  BY <1>1, <1>2, <1>3 DEF r

\* The empty queue counts nothing.
LEMMA QueueEmpty == InQueue(<<>>) = {} /\ Separate(<<>>)
BY DEF InQueue, Separate

-----------------------------------------------------------------------------
(* Types and control *)

\* What the control states say about the data they go with.
Shape ==
    /\ \A p \in Pollers : pc[p] = "send" => pending[p] # <<>>
    /\ pc[CustomPoller] # "send" => pending[CustomPoller] = <<>>
    /\ agg # "merge" => item = NoMetric
    /\ rep = "got" => report = store
    /\ rep = "send" \/ toSend # {} => report \in Maps /\ report # store
    /\ toSend # {} => rep \in {"send", "done"}
    /\ main = "starting" => rep = "unborn"

LEMMA ConstantTypes ==
    /\ CustomPoller \in Pollers
    /\ NoMetric \in Metric
    /\ EmptyMap \in Values
    /\ PollCount \in Names /\ Gauges \subseteq Names
    /\ \A p \in Pollers, k \in Nat : 1 <= k /\ k <= MaxRounds[p] => <<p, k>> \in Polls
<1>1. NoMetric \in Metric
  BY AgentConstants DEF NoMetric, Metric, Names, Stamps
<1>2. EmptyMap \in Values
  BY DEF EmptyMap, Values, Stamps
<1>3. ASSUME NEW p \in Pollers, NEW k \in Nat, 1 <= k, k <= MaxRounds[p]
      PROVE  <<p, k>> \in Polls
  <2>1. MaxRounds[p] \in Nat
    BY AgentConstants
  <2>2. <<p, k>> \in {p} \X (1..MaxRounds[p])
    BY <1>3, <2>1
  <2>3. QED
    BY <2>2 DEF Polls
<1>4. QED
  BY <1>1, <1>2, <1>3, AgentConstants DEF Names

\* SetOrUpdateMetric keeps the storage's map well typed.
LEMMA SetOrUpdateType ==
    ASSUME NEW m \in Values, NEW metric \in Metric
    PROVE  /\ SetOrUpdate(m, metric) \in Values
           /\ SetOrUpdate(m, metric).delta = m.delta \cup metric.delta
<1>1. CASE metric.name = PollCount
  BY <1>1 DEF SetOrUpdate, Values, Metric
<1>2. CASE metric.name # PollCount
  <2>1. metric.name \in Gauges /\ metric.delta = {} /\ metric.stamp \in Stamps
    BY <1>2 DEF Metric, Names
  <2>2. QED
    BY <1>2, <2>1 DEF SetOrUpdate, Values
<1>3. QED
  BY <1>1, <1>2

\* What PollOnce builds is a non-empty queue of metrics.
LEMMA SampleType ==
    ASSUME NEW p \in Pollers, TypeOK
    PROVE  /\ Sample(p) \in Seq(Metric)
           /\ Sample(p) # <<>>
           /\ InQueue(Sample(p)) = {}
           /\ Separate(Sample(p))
<1> DEFINE n == Len(GaugesOf[p])
           s == Sample(p)
<1>1. GaugesOf[p] \in Seq(Gauges) /\ GaugesOf[p] # <<>>
  BY AgentConstants
<1>2. n \in Nat \ {0} /\ \A i \in 1..n : GaugesOf[p][i] \in Gauges
  BY <1>1
<1>3. rounds[p] \in Stamps
  BY DEF TypeOK
<1> HIDE DEF n
<1>4. \A i \in 1..n :
        [name |-> GaugesOf[p][i], delta |-> {}, stamp |-> rounds[p]] \in Metric
  BY <1>2, <1>3 DEF Metric, Names
<1>5. s = [i \in 1..n |->
             [name |-> GaugesOf[p][i], delta |-> {}, stamp |-> rounds[p]]]
  BY DEF Sample, n
<1> HIDE DEF s
<1>6. s \in Seq(Metric) /\ Len(s) = n
  BY <1>2, <1>4, <1>5
<1>7. s # <<>>
  BY <1>2, <1>6
<1>8. \A i \in 1..Len(s) : s[i].delta = {}
  BY <1>5, <1>6
<1>9. InQueue(s) = {} /\ Separate(s)
  BY <1>8 DEF InQueue, Separate
<1>10. QED
  BY <1>6, <1>7, <1>9 DEF s

\* The server applies the counter of the report as a whole, or leaves it.
LEMMA ApplyMoves ==
    ASSUME TypeOK, Shape, NEW B \in (SUBSET toSend) \ {{}}, Apply(B)
    PROVE  /\ server' \in Values
           /\ toSend' \subseteq toSend
           /\ UNCHANGED <<report, heap>> =>
                 \/ server'.delta = server.delta \cup Unsent /\ Unsent' = {}
                 \/ server'.delta = server.delta /\ Unsent' = Unsent
<1>1. report \in Maps /\ heap[report] \in Values /\ server \in Values
  BY DEF Shape, TypeOK
<1>2. server' = [delta |-> IF PollCount \in B
                           THEN server.delta \cup heap[report].delta
                           ELSE server.delta,
                 stamp |-> [g \in Gauges |->
                              IF g \in B THEN heap[report].stamp[g]
                                         ELSE server.stamp[g]]]
      /\ toSend' = toSend \ B
  BY DEF Apply
<1>3. server' \in Values /\ toSend' \subseteq toSend
  BY <1>1, <1>2 DEF Values
<1>4. ASSUME UNCHANGED <<report, heap>>
      PROVE  \/ server'.delta = server.delta \cup Unsent /\ Unsent' = {}
             \/ server'.delta = server.delta /\ Unsent' = Unsent
  <2>1. CASE PollCount \in B
    BY <1>2, <1>4, <2>1 DEF Unsent
  <2>2. CASE PollCount \notin B
    BY <1>2, <1>4, <2>2 DEF Unsent
  <2>3. QED
    BY <2>1, <2>2
<1>5. QED
  BY <1>3, <1>4

\* The initial state is well typed.
LEMMA InitTypes == Init => TypeOK /\ Shape
<1> SUFFICES ASSUME Init PROVE TypeOK /\ Shape
  OBVIOUS
<1>1. store \in Maps
  BY AgentConstants DEF Init
<1>2. TypeOK
  <2>1. <<>> \in Seq(Metric) /\ Len(<<>>) = 0 /\ 0 <= Cap
    BY AgentConstants
  <2>2. /\ rounds \in [Pollers -> Stamps]
        /\ pc \in [Pollers -> {"start", "wait", "poll", "send", "done"}]
        /\ pending \in [Pollers -> Seq(Metric)]
        /\ heap \in [Maps -> Values]
    BY <2>1, ConstantTypes DEF Init, Stamps
  <2>3. QED
    BY <1>1, <2>1, <2>2, ConstantTypes DEF Init, TypeOK
<1>3. Shape
  BY ConstantTypes DEF Init, Shape
<1>4. QED
  BY <1>2, <1>3

\* Every step keeps the types and the control invariant.
LEMMA NextTypes == TypeOK /\ Shape /\ [Next]_vars => TypeOK' /\ Shape'
<1> SUFFICES ASSUME TypeOK, Shape, [Next]_vars
             PROVE  TypeOK' /\ Shape'
  OBVIOUS
<1> USE ConstantTypes DEF sampling, merging, reporting, group
<1>1. ASSUME NEW p \in Pollers, Tick(p) PROVE TypeOK' /\ Shape'
  <2>1. rounds[p] \in Nat /\ MaxRounds[p] \in Nat
    BY AgentConstants DEF TypeOK, Stamps
  <2>2. <<p, rounds[p] + 1>> \in Polls
    BY <1>1, <2>1 DEF Tick
  <2>3. TypeOK'
    BY <1>1, <2>1, <2>2 DEF Tick, TypeOK, Stamps
  <2>4. Shape'
    BY <1>1 DEF Tick, TypeOK, Shape
  <2>5. QED
    BY <2>3, <2>4
<1>2. ASSUME NEW p \in Pollers, Collect(p) PROVE TypeOK' /\ Shape'
  <2>1. Sample(p) \in Seq(Metric) /\ Sample(p) # <<>>
    BY SampleType
  <2> DEFINE m == [NoMetric EXCEPT !.delta = counter]
  <2>2. m \in Metric
    BY DEF NoMetric, Metric, TypeOK, Names, Stamps
  <2>3. Append(Sample(p), m) \in Seq(Metric) /\ Append(Sample(p), m) # <<>>
    BY <2>1, <2>2
  <2>4. pending'[p] \in Seq(Metric) /\ pending'[p] # <<>>
    BY <1>2, <2>1, <2>3 DEF Collect, TypeOK
  <2>5. /\ pending' = [pending EXCEPT ![p] = pending'[p]]
        /\ counter' \in SUBSET Polls
    BY <1>2 DEF Collect, TypeOK
  <2>6. TypeOK'
    BY <1>2, <2>4, <2>5 DEF Collect, TypeOK
  <2>7. Shape'
    BY <1>2, <2>4, <2>5 DEF Collect, TypeOK, Shape
  <2>8. QED
    BY <2>6, <2>7
<1>3. ASSUME NEW p \in Pollers, CollectFails(p) PROVE TypeOK' /\ Shape'
  BY <1>3 DEF CollectFails, Return, TypeOK, Shape
<1>4. ASSUME NEW p \in Pollers, Register(p) PROVE TypeOK' /\ Shape'
  <2>1. pending[p] \in Seq(Metric) /\ pending[p] # <<>>
    BY <1>4 DEF Register, TypeOK, Shape
  <2>2. Head(pending[p]) \in Metric /\ Tail(pending[p]) \in Seq(Metric)
    BY <2>1, QueueTail
  <2>3. ch' \in Seq(Metric) /\ Len(ch') <= Cap
    BY <1>4, <2>2, AgentConstants DEF Register, TypeOK
  <2>4. TypeOK'
    BY <1>4, <2>2, <2>3 DEF Register, TypeOK
  <2>5. Shape'
    BY <1>4, <2>1, <2>2 DEF Register, TypeOK, Shape
  <2>6. QED
    BY <2>4, <2>5
<1>5. ASSUME NEW p \in Pollers, PollStops(p) PROVE TypeOK' /\ Shape'
  BY <1>5 DEF PollStops, Return, TypeOK, Shape
<1>6. ASSUME Receive PROVE TypeOK' /\ Shape'
  <2>1. Head(ch) \in Metric /\ Tail(ch) \in Seq(Metric)
    BY <1>6, QueueTail DEF Receive, TypeOK
  <2>2. Len(ch') <= Cap
    BY <1>6, AgentConstants DEF Receive, TypeOK
  <2>3. QED
    BY <1>6, <2>1, <2>2 DEF Receive, TypeOK, Shape
<1>7. ASSUME Merge PROVE TypeOK' /\ Shape'
  <2>1. SetOrUpdate(heap[store], item) \in Values
    BY SetOrUpdateType DEF TypeOK
  <2>2. QED
    BY <1>7, <2>1 DEF Merge, TypeOK, Shape
<1>8. CASE AggregatorStops
  BY <1>8 DEF AggregatorStops, Return, TypeOK, Shape
<1>9. CASE GetMetrics
  BY <1>9 DEF GetMetrics, TypeOK, Shape
<1>10. CASE Reset
  <2>1. Present(heap[report]) \in SUBSET Names
    BY DEF Present
  <2>2. QED
    BY <1>10, <2>1 DEF Reset, TypeOK, Shape
<1>11. CASE Deliver \/ DeliverLate
  <2>1. PICK B \in (SUBSET toSend) \ {{}} : Apply(B)
    BY <1>11 DEF Deliver, DeliverLate
  <2>2. server' \in Values /\ toSend' \subseteq toSend
    BY <2>1, ApplyMoves
  <2>3. QED
    BY <1>11, <2>2 DEF Deliver, DeliverLate, TypeOK, Shape
<1>12. CASE SendReturns
  BY <1>12 DEF SendReturns, TypeOK, Shape
<1>13. CASE SendFails
  BY <1>13 DEF SendFails, Return, TypeOK, Shape
<1>14. CASE ReporterStops
  BY <1>14 DEF ReporterStops, Return, TypeOK, Shape
<1>15. CASE NewReporter
  BY <1>15 DEF NewReporter, TypeOK, Shape
<1>16. CASE NewReporterFails
  BY <1>16 DEF NewReporterFails, TypeOK, Shape
<1>17. CASE Signal
  BY <1>17 DEF Signal, TypeOK, Shape
<1>18. CASE Exit
  BY <1>18 DEF Exit, TypeOK, Shape
<1>19. CASE UNCHANGED vars
  BY <1>19 DEF vars, TypeOK, Shape
<1>20. QED
  BY <1>1, <1>2, <1>3, <1>4, <1>5, <1>6, <1>7, <1>8, <1>9, <1>10, <1>11,
     <1>12, <1>13, <1>14, <1>15, <1>16, <1>17, <1>18, <1>19
  DEF Next, PollerStep, AggregatorStep, ReporterStep, MainStep, Exited

\* Every reachable state of the agent is well typed: whatever the pollers,
\* the capacity and the interleaving, no goroutine reads a value that is not
\* there (TypeOK, AgentPipeline).
THEOREM AgentTypes == Spec => [](TypeOK /\ Shape)
BY InitTypes, NextTypes, PTL DEF Spec

-----------------------------------------------------------------------------
(* Every poll is counted exactly once *)

\* Only the custom poller sends counters.
OthersCountNothing ==
    \A p \in Pollers \ {CustomPoller} : InQueue(pending[p]) = {}

CountInv == TypeOK /\ Shape /\ OthersCountNothing /\ ExactlyOnce

\* The places a poll can be in, in the order it passes them.
Partition(all, C, P, Q, I, S, U, D) ==
    /\ all = C \cup P \cup Q \cup I \cup S \cup U \cup D
    /\ C \cap (P \cup Q \cup I \cup S \cup U \cup D) = {}
    /\ P \cap (Q \cup I \cup S \cup U \cup D) = {}
    /\ Q \cap (I \cup S \cup U \cup D) = {}
    /\ I \cap (S \cup U \cup D) = {}
    /\ S \cap (U \cup D) = {}
    /\ U \cap D = {}

\* ExactlyOnce says that the places partition the polls.
LEMMA ExactlyOnceIsPartition ==
    ExactlyOnce <=>
        /\ Separate(pending[CustomPoller])
        /\ Separate(ch)
        /\ Partition(Polled, counter, InQueue(pending[CustomPoller]), InQueue(ch),
                     item.delta, heap[store].delta, Unsent, server.delta)
BY DEF ExactlyOnce, Accounted, CountedOnce, Partition

\* Initially nothing is counted.
LEMMA InitCount == Init => CountInv
<1> SUFFICES ASSUME Init PROVE CountInv
  OBVIOUS
<1>1. TypeOK /\ Shape
  BY InitTypes
<1>2. Polled = {}
  <2>1. ASSUME NEW t \in Polls PROVE t[1] \in Pollers /\ t[2] >= 1 /\ t[2] \in Nat
    BY <2>1, AgentConstants DEF Polls
  <2>2. QED
    BY <2>1 DEF Init, Polled
<1>3. /\ counter = {} /\ ch = <<>> /\ item.delta = {} /\ heap[store].delta = {}
      /\ Unsent = {} /\ server.delta = {}
      /\ \A p \in Pollers : pending[p] = <<>>
  BY <1>1 DEF Init, NoMetric, EmptyMap, Unsent, TypeOK
<1>4. CustomPoller \in Pollers
  BY AgentConstants
<1>5. OthersCountNothing
  BY <1>3, QueueEmpty DEF OthersCountNothing
<1>6. ExactlyOnce
  BY <1>2, <1>3, <1>4, QueueEmpty DEF ExactlyOnce, Accounted, CountedOnce
<1>7. QED
  BY <1>1, <1>5, <1>6 DEF CountInv

\* A tick counts one new poll and no other.
LEMMA TickPolls ==
    ASSUME TypeOK, NEW p \in Pollers, Tick(p)
    PROVE  /\ <<p, rounds[p] + 1>> \in Polls \ Polled
           /\ Polled' = Polled \cup {<<p, rounds[p] + 1>>}
<1> DEFINE t == <<p, rounds[p] + 1>>
<1>1. rounds[p] \in Nat /\ MaxRounds[p] \in Nat
  BY AgentConstants DEF TypeOK, Stamps
<1>2. t \in Polls /\ t \notin Polled
  BY <1>1, ConstantTypes DEF Tick, Polled
<1>3. ASSUME NEW u \in Polls
      PROVE  u \in Polled' <=> u \in Polled \/ u = t
  <2>1. PICK q \in Pollers, k \in Nat : u = <<q, k>>
    BY <1>3, AgentConstants DEF Polls
  <2>2. rounds[q] \in Nat /\ rounds' = [rounds EXCEPT ![p] = @ + 1]
    BY DEF TypeOK, Stamps, Tick
  <2>3. k <= rounds'[q] <=> k <= rounds[q] \/ (q = p /\ k = rounds[p] + 1)
    BY <2>2 DEF TypeOK, Stamps
  <2>4. QED
    BY <1>3, <2>1, <2>3 DEF Polled
<1>4. QED
  BY <1>2, <1>3 DEF Polled

\* Every step moves whole sets of polls from one place to the next.
LEMMA NextCount == CountInv /\ [Next]_vars => CountInv'
<1> SUFFICES ASSUME CountInv, [Next]_vars
             PROVE  CountInv'
  OBVIOUS
<1> DEFINE P == InQueue(pending[CustomPoller])
           Q == InQueue(ch)
           S == heap[store].delta
<1>types. TypeOK /\ Shape /\ TypeOK' /\ Shape' /\ OthersCountNothing
  BY NextTypes DEF CountInv
<1>here. /\ Separate(pending[CustomPoller])
         /\ Separate(ch)
         /\ Partition(Polled, counter, P, Q, item.delta, S, Unsent,
                      server.delta)
  BY ExactlyOnceIsPartition DEF CountInv
<1>goal. SUFFICES /\ OthersCountNothing'
                  /\ Separate(pending[CustomPoller])'
                  /\ Separate(ch)'
                  /\ Partition(Polled, counter, P, Q, item.delta, S, Unsent,
                               server.delta)'
  BY <1>types, ExactlyOnceIsPartition, PTL DEF CountInv
<1> HIDE DEF P, Q, S
<1> DEFINE Goal == /\ OthersCountNothing'
                   /\ Separate(pending[CustomPoller])'
                   /\ Separate(ch)'
                   /\ Partition(Polled, counter, P, Q, item.delta, S, Unsent,
                                server.delta)'
<1> USE DEF sampling, merging, reporting, group
\* Steps that touch no place a poll can be in.
<1>same. ASSUME UNCHANGED <<rounds, counter, pending, ch, item>>,
                S' = S, Unsent' = Unsent, server' = server
         PROVE  Goal
  <2>1. P' = P /\ Q' = Q
    BY <1>same DEF P, Q
  <2>2. Polled' = Polled
    BY <1>same DEF Polled
  <2>3. OthersCountNothing'
    BY <1>types, <1>same DEF OthersCountNothing
  <2>4. Separate(pending[CustomPoller])' /\ Separate(ch)'
    BY <1>here, <1>same
  <2>5. Partition(Polled, counter, P, Q, item.delta, S, Unsent, server.delta)'
    BY <1>here, <1>same, <2>1, <2>2 DEF Partition
  <2>6. QED
    BY <2>3, <2>4, <2>5
<1>1. ASSUME NEW p \in Pollers, Tick(p) PROVE Goal
  <2> DEFINE t == <<p, rounds[p] + 1>>
  <2>1. /\ UNCHANGED <<pending, ch, item, heap, store, server>>
        /\ counter' = counter \cup {t}
        /\ P' = P /\ Q' = Q /\ S' = S /\ Unsent' = Unsent
    BY <1>1 DEF Tick, P, Q, S, Unsent
  <2>2. t \in Polls \ Polled /\ Polled' = Polled \cup {t}
    BY <1>types, <1>1, TickPolls
  <2>5. OthersCountNothing' /\ Separate(pending[CustomPoller])' /\ Separate(ch)'
    BY <1>types, <1>here, <2>1 DEF OthersCountNothing
  <2> HIDE DEF t
  <2>6. Partition(Polled, counter, P, Q, item.delta, S, Unsent, server.delta)'
    BY <1>here, <2>1, <2>2 DEF Partition
  <2>7. QED
    BY <2>5, <2>6
<1>2. ASSUME NEW p \in Pollers, Collect(p) PROVE Goal
  <2>1. /\ UNCHANGED <<rounds, ch, item, heap, store, server>>
        /\ Q' = Q /\ S' = S /\ Unsent' = Unsent /\ Polled' = Polled
        /\ Separate(ch)'
    BY <1>2, <1>here DEF Collect, Q, S, Unsent, Polled
  <2>2. /\ Sample(p) \in Seq(Metric) /\ InQueue(Sample(p)) = {}
        /\ Separate(Sample(p))
    BY <1>types, SampleType
  <2>3. CASE p = CustomPoller
    <3> DEFINE m == [NoMetric EXCEPT !.delta = counter]
    <3>1. /\ pending' = [pending EXCEPT ![p] = Append(Sample(p), m)]
          /\ counter' = {}
      BY <1>2, <2>3 DEF Collect
    <3>2. pending'[CustomPoller] = Append(Sample(p), m)
      BY <3>1, <2>3, <1>types DEF TypeOK
    <3>3. m \in Metric /\ m.delta = counter
      BY <1>types, ConstantTypes DEF NoMetric, Metric, TypeOK
    <3>4. /\ P' = counter
          /\ Separate(pending[CustomPoller])'
      BY <3>2, <3>3, <2>2, QueueAppend DEF P
    <3>5. pending[CustomPoller] = <<>>
      BY <1>2, <1>types, <2>3 DEF Collect, Shape
    <3>6. P = {}
      BY <3>5, QueueEmpty DEF P
    <3>7. OthersCountNothing'
      BY <3>1, <2>3, <1>types DEF OthersCountNothing, TypeOK
    <3>8. Partition(Polled, counter, P, Q, item.delta, S, Unsent, server.delta)'
      BY <1>here, <2>1, <3>1, <3>4, <3>6 DEF Partition
    <3>9. QED
      BY <2>1, <3>4, <3>7, <3>8
  <2>4. CASE p # CustomPoller
    <3>1. pending' = [pending EXCEPT ![p] = Sample(p)] /\ counter' = counter
      BY <1>2, <2>4 DEF Collect
    <3>2. pending'[CustomPoller] = pending[CustomPoller] /\ P' = P
      BY <3>1, <2>4, <1>types DEF TypeOK, P
    <3>3. OthersCountNothing'
      BY <3>1, <2>2, <2>4, <1>types DEF OthersCountNothing, TypeOK
    <3>4. Partition(Polled, counter, P, Q, item.delta, S, Unsent, server.delta)'
      BY <1>here, <2>1, <3>1, <3>2 DEF Partition
    <3>5. QED
      BY <1>here, <2>1, <3>2, <3>3, <3>4
  <2>5. QED
    BY <2>3, <2>4
<1>3. ASSUME NEW p \in Pollers, Register(p) PROVE Goal
  <2> DEFINE q == pending[p]
             h == Head(q)
  <2>1. /\ UNCHANGED <<rounds, counter, item, heap, store, server>>
        /\ S' = S /\ Unsent' = Unsent /\ Polled' = Polled
        /\ ch' = Append(ch, h)
        /\ pending' = [pending EXCEPT ![p] = Tail(q)]
    BY <1>3 DEF Register, S, Unsent, Polled
  <2>2. q \in Seq(Metric) /\ q # <<>> /\ ch \in Seq(Metric)
    BY <1>3, <1>types DEF Register, TypeOK, Shape
  <2>3. /\ h \in Metric
        /\ InQueue(q) = h.delta \cup InQueue(Tail(q))
        /\ Separate(q) => /\ Separate(Tail(q))
                          /\ h.delta \cap InQueue(Tail(q)) = {}
    BY <2>2, QueueTail
  <2>4. /\ Q' = Q \cup h.delta
        /\ Separate(ch) /\ h.delta \cap Q = {} => Separate(ch)'
    BY <2>1, <2>2, <2>3, QueueAppend DEF Q
  <2>5. pending'[p] = Tail(q)
        /\ \A r \in Pollers : r # p => pending'[r] = pending[r]
    BY <2>1, <1>types DEF TypeOK
  <2>6. CASE p = CustomPoller
    <3>1. /\ P = h.delta \cup P'
          /\ h.delta \cap P' = {}
          /\ Separate(pending[CustomPoller])'
      BY <2>3, <2>5, <2>6, <1>here DEF P
    <3>2. h.delta \cap Q = {}
      BY <3>1, <1>here DEF Partition
    <3>3. OthersCountNothing'
      BY <2>5, <2>6, <1>types DEF OthersCountNothing
    <3> HIDE DEF h
    <3>4. Partition(Polled, counter, P, Q, item.delta, S, Unsent, server.delta)'
      BY <1>here, <2>1, <2>4, <3>1 DEF Partition
    <3>5. QED
      BY <1>here, <2>4, <3>1, <3>2, <3>3, <3>4
  <2>7. CASE p # CustomPoller
    <3>1. InQueue(q) = {}
      BY <2>7, <1>types DEF OthersCountNothing
    <3>2. h.delta = {} /\ InQueue(Tail(q)) = {}
      BY <3>1, <2>3
    <3>3. CustomPoller \in Pollers
      BY AgentConstants
    <3>4. P' = P /\ pending'[CustomPoller] = pending[CustomPoller]
      BY <2>5, <2>7, <3>3 DEF P
    <3>5. OthersCountNothing'
      BY <2>5, <3>2, <1>types DEF OthersCountNothing
    <3>6. Separate(ch)' /\ Q' = Q
      BY <2>4, <3>2, <1>here
    <3>7. Partition(Polled, counter, P, Q, item.delta, S, Unsent, server.delta)'
      BY <1>here, <2>1, <3>4, <3>6 DEF Partition
    <3>8. QED
      BY <1>here, <3>4, <3>5, <3>6, <3>7
  <2>8. QED
    BY <2>6, <2>7
<1>4. CASE Receive
  <2> DEFINE h == Head(ch)
  <2>1. /\ UNCHANGED <<rounds, counter, pending, heap, store, server>>
        /\ P' = P /\ S' = S /\ Unsent' = Unsent /\ Polled' = Polled
        /\ item' = h /\ ch' = Tail(ch)
        /\ OthersCountNothing' /\ Separate(pending[CustomPoller])'
    BY <1>4, <1>types, <1>here
    DEF Receive, P, S, Unsent, Polled, OthersCountNothing
  <2>2. /\ Q = h.delta \cup Q'
        /\ h.delta \cap Q' = {}
        /\ Separate(ch)'
    BY <1>4, <1>types, <1>here, <2>1, QueueTail DEF Receive, TypeOK, Q
  <2>3. item.delta = {}
    BY <1>4, <1>types DEF Receive, Shape, NoMetric
  <2> HIDE DEF h
  <2>4. Partition(Polled, counter, P, Q, item.delta, S, Unsent, server.delta)'
    BY <1>here, <2>1, <2>2, <2>3 DEF Partition
  <2>5. QED
    BY <2>1, <2>2, <2>4
<1>5. CASE Merge
  <2>1. /\ UNCHANGED <<rounds, counter, pending, ch, server>>
        /\ P' = P /\ Q' = Q /\ Polled' = Polled
        /\ OthersCountNothing' /\ Separate(pending[CustomPoller])' /\ Separate(ch)'
    BY <1>5, <1>types, <1>here DEF Merge, P, Q, Polled, OthersCountNothing
  <2>2. item'.delta = {}
    BY <1>5 DEF Merge, NoMetric
  <2>3. S' = S \cup item.delta
    BY <1>5, <1>types, SetOrUpdateType DEF Merge, TypeOK, S
  <2>4. Unsent' = Unsent
    BY <1>5, <1>types DEF Merge, Unsent, Shape, TypeOK
  <2>5. Partition(Polled, counter, P, Q, item.delta, S, Unsent, server.delta)'
    BY <1>here, <2>1, <2>2, <2>3, <2>4 DEF Partition
  <2>6. QED
    BY <2>1, <2>5
<1>6. CASE Reset
  <2>1. /\ UNCHANGED <<rounds, counter, pending, ch, item, server>>
        /\ P' = P /\ Q' = Q /\ Polled' = Polled
        /\ OthersCountNothing' /\ Separate(pending[CustomPoller])' /\ Separate(ch)'
    BY <1>6, <1>types, <1>here DEF Reset, P, Q, Polled, OthersCountNothing
  <2>2. Unsent = {} /\ report = store
    BY <1>6, <1>types DEF Reset, Unsent, Shape
  <2>3. PICK h \in Maps \ {store, report} :
          store' = h /\ heap' = [heap EXCEPT ![h] = EmptyMap]
    BY <1>6 DEF Reset
  <2>4. S' = {} /\ heap'[report] = heap[report]
    BY <1>types, <2>2, <2>3 DEF TypeOK, EmptyMap, S
  <2>5. PollCount \in toSend' <=> S # {}
    BY <1>6, <2>2, AgentConstants DEF Reset, Present, S
  <2>6. Unsent' = S
    BY <1>6, <2>2, <2>4, <2>5 DEF Reset, Unsent, S
  <2>7. Partition(Polled, counter, P, Q, item.delta, S, Unsent, server.delta)'
    BY <1>here, <2>1, <2>2, <2>4, <2>6 DEF Partition
  <2>8. QED
    BY <2>1, <2>7
<1>7. CASE Deliver \/ DeliverLate
  <2>1. /\ UNCHANGED <<rounds, counter, pending, ch, item, heap, store, report>>
        /\ P' = P /\ Q' = Q /\ S' = S /\ Polled' = Polled
        /\ OthersCountNothing' /\ Separate(pending[CustomPoller])' /\ Separate(ch)'
    BY <1>7, <1>types, <1>here
    DEF Deliver, DeliverLate, P, Q, S, Polled, OthersCountNothing
  <2>2. PICK B \in (SUBSET toSend) \ {{}} : Apply(B)
    BY <1>7 DEF Deliver, DeliverLate
  <2>3. \/ server'.delta = server.delta \cup Unsent /\ Unsent' = {}
        \/ server'.delta = server.delta /\ Unsent' = Unsent
    BY <2>1, <2>2, <1>types, ApplyMoves
  <2>4. QED
    BY <1>here, <2>1, <2>3 DEF Partition
<1>8. CASE SendReturns
  <2>1. /\ UNCHANGED <<rounds, counter, pending, ch, item, server>>
        /\ Unsent' = Unsent
    BY <1>8 DEF SendReturns, Unsent
  <2>2. S' = S
    BY <1>8, <1>types DEF SendReturns, Shape, TypeOK, S
  <2>3. QED
    BY <1>same, <2>1, <2>2
<1>9. CASE SendFails
  BY <1>9, <1>same DEF SendFails, S, Unsent
<1>10. ASSUME NEW p \in Pollers, CollectFails(p) \/ PollStops(p) PROVE Goal
  BY <1>10, <1>same DEF CollectFails, PollStops, S, Unsent
<1>11. CASE AggregatorStops
  BY <1>11, <1>same DEF AggregatorStops, S, Unsent
<1>12. CASE GetMetrics \/ ReporterStops \/ NewReporter
  <2>1. UNCHANGED <<rounds, counter, pending, ch, item, heap, store, server>>
    BY <1>12 DEF GetMetrics, ReporterStops, NewReporter
  <2>2. Unsent' = Unsent
    BY <1>12, <1>types DEF GetMetrics, ReporterStops, NewReporter, Shape, Unsent
  <2>3. QED
    BY <1>same, <2>1, <2>2 DEF S
<1>13. CASE NewReporterFails \/ Signal \/ Exit
  BY <1>13, <1>same DEF NewReporterFails, Signal, Exit, S, Unsent
<1>14. CASE UNCHANGED vars
  BY <1>14, <1>same DEF vars, S, Unsent
<1>15. QED
  BY <1>1, <1>2, <1>3, <1>4, <1>5, <1>6, <1>7, <1>8, <1>9, <1>10, <1>11,
     <1>12, <1>13, <1>14
  DEF Next, PollerStep, AggregatorStep, ReporterStep, MainStep, Exited

\* The counting invariant holds in every reachable state.
LEMMA AgentCounts == Spec => []CountInv
BY InitCount, NextCount, PTL DEF Spec

\* No poll is lost or counted twice between the pollers and the server,
\* whatever the interleaving of GetMetrics, Reset and the aggregator
\* (ExactlyOnce).
THEOREM EveryPollOnce == Spec => []ExactlyOnce
<1>1. CountInv => ExactlyOnce
  BY DEF CountInv
<1>2. QED
  BY <1>1, AgentCounts, PTL

-----------------------------------------------------------------------------
(* The reported map is private *)

\* One step of the agent leaves the map being sent alone.
LEMMA StepReportIsPrivate ==
    TypeOK /\ Shape /\ [Next]_vars
        => (rep = "send" /\ rep' = "send" => heap'[report] = heap[report])
<1> SUFFICES ASSUME TypeOK, Shape, [Next]_vars, rep = "send", rep' = "send"
             PROVE  heap'[report] = heap[report]
  OBVIOUS
<1> USE DEF sampling, merging, reporting, group
<1>1. CASE Merge
  BY <1>1 DEF Merge, TypeOK, Shape
<1>2. CASE heap' = heap
  BY <1>2
<1>3. ASSUME NEW p \in Pollers, PollerStep(p) PROVE heap' = heap
  BY <1>3 DEF PollerStep, Tick, Collect, CollectFails, Register, PollStops
<1>4. ASSUME AggregatorStep, ~Merge PROVE heap' = heap
  BY <1>4 DEF AggregatorStep, Receive, AggregatorStops
<1>5. ASSUME ReporterStep PROVE heap' = heap
  BY <1>5 DEF ReporterStep, GetMetrics, Reset, Deliver, SendReturns, SendFails,
              DeliverLate, ReporterStops
<1>6. ASSUME MainStep PROVE heap' = heap
  BY <1>6 DEF MainStep, NewReporter, NewReporterFails, Signal, Exit
<1>7. ASSUME UNCHANGED vars PROVE heap' = heap
  BY <1>7 DEF vars
<1>8. QED
  BY <1>1, <1>2, <1>3, <1>4, <1>5, <1>6, <1>7 DEF Next, Exited

\* The map SendMetrics reads, although it was the storage's live map, is not
\* written while it is read (ReportIsPrivate).
THEOREM ReportStaysPrivate == Spec => ReportIsPrivate
<1>1. Spec => [][Next]_vars
  BY DEF Spec
<1>2. QED
  BY <1>1, AgentTypes, StepReportIsPrivate, PTL DEF ReportIsPrivate

-----------------------------------------------------------------------------
(* Shutdown *)

\* Who cancelled the context, and which error errgroup keeps because of it.
StopInv ==
    /\ cancelled => signalled \/ firstErr # "none"
    /\ firstErr = "canceled" => signalled
    /\ rep = "done" => firstErr # "none"
    /\ main = "ok" => signalled

\* StopInv is inductive.
LEMMA NextStop == TypeOK /\ Shape /\ StopInv /\ [Next]_vars => StopInv'
<1> SUFFICES ASSUME TypeOK, Shape, StopInv, [Next]_vars
             PROVE  StopInv'
  OBVIOUS
<1> USE DEF sampling, merging, reporting, group, StopInv
<1>1. ASSUME NEW p \in Pollers, PollerStep(p) PROVE StopInv'
  BY <1>1 DEF PollerStep, Tick, Collect, CollectFails, Register, PollStops,
              Return
<1>2. CASE AggregatorStep
  BY <1>2 DEF AggregatorStep, Receive, Merge, AggregatorStops, Return
<1>3. CASE GetMetrics \/ Reset \/ Deliver \/ SendReturns \/ DeliverLate
  BY <1>3 DEF GetMetrics, Reset, Deliver, SendReturns, DeliverLate, Shape
<1>4. CASE SendFails
  BY <1>4 DEF SendFails, Return
<1>5. CASE ReporterStops
  BY <1>5 DEF ReporterStops, Return
<1>6. CASE NewReporter
  BY <1>6 DEF NewReporter, Shape
<1>7. CASE NewReporterFails \/ Signal
  BY <1>7 DEF NewReporterFails, Signal
<1>8. CASE Exit
  BY <1>8 DEF Exit, AllDone, TypeOK
<1>9. CASE UNCHANGED vars
  BY <1>9 DEF vars
<1>10. QED
  BY <1>1, <1>2, <1>3, <1>4, <1>5, <1>6, <1>7, <1>8, <1>9
  DEF Next, ReporterStep, MainStep, Exited

\* StopInv holds in every reachable state.
LEMMA AgentStops == Spec => []StopInv
<1>1. Init => StopInv
  BY DEF Init, StopInv
<1>2. QED
  BY <1>1, NextStop, AgentTypes, PTL DEF Spec

\* Run returns nil only after a signal: a failure is never masked by the
\* cancellations it causes (CleanExitWasAskedFor).
THEOREM CleanExit == Spec => []CleanExitWasAskedFor
<1>1. StopInv => CleanExitWasAskedFor
  BY DEF StopInv, CleanExitWasAskedFor
<1>2. QED
  BY <1>1, AgentStops, PTL

-----------------------------------------------------------------------------
(* The agent implements the ledger of its polls *)

\* A step of the agent counts a poll, reports, loses a report, or is silent.
LEMMA StepSimulates ==
    CountInv /\ CountInv' /\ StopInv /\ [Next]_vars
        => [Ledger!Next]_Ledger!ledger
<1> SUFFICES ASSUME CountInv, CountInv', StopInv, [Next]_vars
             PROVE  Ledger!Next \/ UNCHANGED Ledger!ledger
  OBVIOUS
<1>types. TypeOK /\ Shape
  BY DEF CountInv
<1>out. Unsent \subseteq Ledger!Outstanding
  BY DEF CountInv, ExactlyOnce, Accounted, CountedOnce, Ledger!Outstanding
<1> USE DEF sampling, merging, reporting, group
<1>1. ASSUME NEW p \in Pollers, Tick(p) PROVE Ledger!Count
  <2> DEFINE t == <<p, rounds[p] + 1>>
  <2>1. t \in Polls \ Polled /\ Polled' = Polled \cup {t}
    BY <1>types, <1>1, TickPolls
  <2>2. QED
    BY <1>1, <2>1 DEF Tick, Unsent, Ledger!Count
<1>2. CASE Deliver
  <2>1. PICK B \in (SUBSET toSend) \ {{}} : Apply(B)
    BY <1>2 DEF Deliver
  <2>2. /\ UNCHANGED <<rounds, report, heap>>
        /\ rep = "send" /\ rep' = "send"
    BY <1>2 DEF Deliver
  <2>3. \E R \in SUBSET Ledger!Outstanding : server'.delta = server.delta \cup R
    <3>1. server'.delta = server.delta \cup Unsent
          \/ server'.delta = server.delta \cup {}
      BY <2>1, <2>2, <1>types, ApplyMoves
    <3>2. QED
      BY <3>1, <1>out
  <2>4. Polled' = Polled
    BY <2>2 DEF Polled
  <2>5. QED
    BY <2>2, <2>3, <2>4 DEF Ledger!Next, Ledger!Report
<1>3. CASE DeliverLate
  <2>1. PICK B \in (SUBSET toSend) \ {{}} : Apply(B)
    BY <1>3 DEF DeliverLate
  <2>2. /\ UNCHANGED <<rounds, report, heap>>
        /\ rep = "done" /\ rep' = "done"
    BY <1>3 DEF DeliverLate
  <2>3. \/ server'.delta = server.delta \cup Unsent /\ Unsent' = {}
        \/ server'.delta = server.delta /\ Unsent' = Unsent
    BY <2>1, <2>2, <1>types, ApplyMoves
  <2>4. Polled' = Polled
    BY <2>2 DEF Polled
  <2>5. QED
    BY <2>2, <2>3, <2>4 DEF Ledger!Next, Ledger!Arrive, Ledger!ledger
<1>4. CASE SendFails \/ ReporterStops
  <2>1. /\ UNCHANGED <<rounds, server>>
        /\ Unsent' = Unsent
        /\ rep # "done" /\ rep' = "done"
    BY <1>4 DEF SendFails, ReporterStops, Unsent
  <2>2. Polled' = Polled
    BY <2>1 DEF Polled
  <2>3. QED
    BY <2>1, <2>2, <1>out DEF Ledger!Next, Ledger!Close
\* Silent steps.
<1> DEFINE Silent == /\ UNCHANGED <<rounds, server>>
                     /\ rep' = "done" <=> rep = "done"
                     /\ rep = "done" => Unsent' = Unsent
<1>5. ASSUME Silent PROVE UNCHANGED Ledger!ledger
  BY <1>5 DEF Ledger!ledger, Polled
<1>6. ASSUME NEW p \in Pollers, PollerStep(p), ~Tick(p) PROVE Silent
  BY <1>6 DEF PollerStep, Collect, CollectFails, Register, PollStops, Unsent
<1>7. CASE Merge
  <2>1. toSend # {} => heap'[report] = heap[report]
    BY <1>7, <1>types DEF Merge, TypeOK, Shape
  <2>2. QED
    BY <1>5, <1>7, <2>1 DEF Merge, Unsent
<1>8. ASSUME Receive \/ AggregatorStops PROVE Silent
  BY <1>8 DEF Receive, AggregatorStops, Unsent
<1>9. ASSUME GetMetrics \/ Reset \/ SendReturns PROVE Silent
  BY <1>9 DEF GetMetrics, Reset, SendReturns
<1>10. ASSUME NewReporter PROVE Silent
  BY <1>10, <1>types DEF NewReporter, Shape
<1>11. ASSUME NewReporterFails \/ Signal \/ Exit PROVE Silent
  BY <1>11 DEF NewReporterFails, Signal, Exit, Unsent
<1>12. ASSUME UNCHANGED vars PROVE Silent
  BY <1>12 DEF vars, Unsent
<1>13. QED
  BY <1>1, <1>2, <1>3, <1>4, <1>5, <1>6, <1>7, <1>8, <1>9, <1>10, <1>11, <1>12
  DEF Next, AggregatorStep, ReporterStep, MainStep, Exited, Ledger!Next

\* To the server the agent is the ledger of its polls: each is counted once,
\* reported at most once, and given up only by the report whose failure ends
\* reporting (LedgerSpec).
THEOREM AgentImplementsLedger == Spec => LedgerSpec
<1>1. Init => Ledger!Init
  <2> SUFFICES ASSUME Init PROVE Ledger!Init
    OBVIOUS
  <2>1. CountInv
    BY InitCount
  <2>2. Polled = {}
    <3>1. ASSUME NEW t \in Polls PROVE t[1] \in Pollers /\ t[2] >= 1 /\ t[2] \in Nat
      BY <3>1, AgentConstants DEF Polls
    <3>2. QED
      BY <3>1 DEF Init, Polled
  <2>3. server.delta = {} /\ rep # "done"
    BY DEF Init, EmptyMap
  <2>4. QED
    BY <2>2, <2>3 DEF Ledger!Init
<1>2. QED
  BY <1>1, StepSimulates, AgentCounts, AgentStops, PTL
  DEF Spec, LedgerSpec, Ledger!Spec

-----------------------------------------------------------------------------
(* The transport *)

\* A call that has begun makes steps of the contract only, to its end and
\* after a failure.
LEMMA StepKeepsContract ==
    TypeOK /\ Shape /\ [Next]_vars
        => (rep \in {"send", "done"} => Contract!Step)
<1> SUFFICES ASSUME TypeOK, Shape, [Next]_vars, rep \in {"send", "done"}
             PROVE  Contract!Step
  OBVIOUS
<1> USE DEF sampling, merging, reporting, group
<1>1. ASSUME UNCHANGED <<rep, toSend>> PROVE Contract!Step
  BY <1>1 DEF Contract!Step
<1>2. ASSUME Deliver \/ DeliverLate PROVE Contract!Step
  <2>1. PICK B \in (SUBSET toSend) \ {{}} : Apply(B)
    BY <1>2 DEF Deliver, DeliverLate
  <2>2. toSend' = toSend \ B /\ UNCHANGED rep
    BY <1>2, <2>1 DEF Deliver, DeliverLate, Apply
  <2>3. Contract!Deliver
    BY <2>2 DEF Contract!Deliver
  <2>4. QED
    BY <2>3 DEF Contract!Step, Contract!Next
<1>3. ASSUME SendReturns PROVE Contract!Step
  BY <1>3 DEF SendReturns, Contract!Step, Contract!Next, Contract!Succeed
<1>4. ASSUME SendFails PROVE Contract!Step
  BY <1>4 DEF SendFails, Contract!Step, Contract!Next, Contract!Fail
<1>5. ASSUME GetMetrics \/ Reset \/ ReporterStops PROVE FALSE
  BY <1>5 DEF GetMetrics, Reset, ReporterStops
<1>6. ASSUME NewReporter PROVE FALSE
  BY <1>6 DEF NewReporter, Shape
<1>7. ASSUME NEW p \in Pollers, PollerStep(p) PROVE UNCHANGED <<rep, toSend>>
  BY <1>7 DEF PollerStep, Tick, Collect, CollectFails, Register, PollStops
<1>8. ASSUME AggregatorStep PROVE UNCHANGED <<rep, toSend>>
  BY <1>8 DEF AggregatorStep, Receive, Merge, AggregatorStops
<1>9. ASSUME MainStep \/ Exited \/ UNCHANGED vars
      PROVE  UNCHANGED <<rep, toSend>>
  BY <1>6, <1>9 DEF MainStep, NewReporterFails, Signal, Exit, Exited, vars
<1>10. QED
  BY <1>1, <1>2, <1>3, <1>4, <1>5, <1>7, <1>8, <1>9 DEF Next, ReporterStep

\* The agent uses a transport within the contract that RestTransport and
\* ServerLifecycle are shown to implement (SendsKeepContract).
THEOREM AgentKeepsContract == Spec => SendsKeepContract
BY StepKeepsContract, AgentTypes, PTL DEF Spec, SendsKeepContract
=============================================================================
