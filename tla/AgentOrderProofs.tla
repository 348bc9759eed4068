-------------------------- MODULE AgentOrderProofs --------------------------
(* No sample of a gauge overtakes another, for every instance of the agent. *)
EXTENDS AgentPipelineProofs

-----------------------------------------------------------------------------
(* The stamps of one gauge, place by place *)

\* In a metric, and in a queue of metrics.
One(m, g) == IF m.name = g THEN {m.stamp} ELSE {}
Of(q, g) == {q[i].stamp : i \in {j \in 1..Len(q) : q[j].name = g}}

Waiting(g) == UNION {Of(pending[p], g) : p \in Pollers}
Current(g) == {rounds[p] : p \in {q \in Pollers : g \in Sampled(q)}}
Stored(g) == IF heap[store].stamp[g] = 0 THEN {} ELSE {heap[store].stamp[g]}
Reported(g) == IF g \in toSend THEN {heap[report].stamp[g]} ELSE {}

\* No sample in A is newer than one in B.
Before(A, B) == \A a \in A, b \in B : a <= b

\* A queue has the samples of a gauge in their order.
InOrder(q, g) ==
    \A i, j \in 1..Len(q) :
        i < j /\ q[i].name = g /\ q[j].name = g => q[i].stamp <= q[j].stamp

\* Appending a metric appends its sample.
LEMMA AppendOf ==
    ASSUME NEW q \in Seq(Metric), NEW m \in Metric, NEW g
    PROVE  /\ Of(Append(q, m), g) = Of(q, g) \cup One(m, g)
           /\ InOrder(q, g) /\ Before(Of(q, g), One(m, g))
                => InOrder(Append(q, m), g)
<1> DEFINE r == Append(q, m)
           n == Len(q)
<1>1. /\ n \in Nat /\ Len(r) = n + 1
      /\ \A i \in 1..n : r[i] = q[i]
      /\ r[n + 1] = m
  OBVIOUS
<1> HIDE DEF r
<1>2. 1..(n + 1) = 1..n \cup {n + 1}
  BY <1>1
<1>3. Of(r, g) = Of(q, g) \cup One(m, g)
  <2>1. ASSUME NEW s \in Of(r, g) PROVE s \in Of(q, g) \cup One(m, g)
    <3>1. PICK i \in 1..(n + 1) : r[i].name = g /\ s = r[i].stamp
      BY <1>1, <2>1 DEF Of
    <3>2. CASE i \in 1..n
      BY <1>1, <3>1, <3>2 DEF Of
    <3>3. CASE i = n + 1
      BY <1>1, <3>1, <3>3 DEF One
    <3>4. QED
      BY <1>2, <3>2, <3>3
  <2>2. ASSUME NEW s \in Of(q, g) PROVE s \in Of(r, g)
    <3>1. PICK i \in 1..n : q[i].name = g /\ s = q[i].stamp
      BY <2>2 DEF Of
    <3>2. i \in 1..Len(r) /\ r[i] = q[i]
      BY <1>1, <1>2
    <3>3. QED
      BY <3>1, <3>2 DEF Of
  <2>3. One(m, g) \subseteq Of(r, g)
    <3>1. n + 1 \in 1..Len(r)
      BY <1>1, <1>2
    <3>2. QED
      BY <1>1, <3>1 DEF Of, One
  <2>4. QED
    BY <2>1, <2>2, <2>3
<1>4. ASSUME InOrder(q, g), Before(Of(q, g), One(m, g)) PROVE InOrder(r, g)
  <2>1. SUFFICES ASSUME NEW i \in 1..(n + 1), NEW j \in 1..(n + 1), i < j,
                        r[i].name = g, r[j].name = g
                 PROVE  r[i].stamp <= r[j].stamp
    BY <1>1 DEF InOrder
  <2>2. i \in 1..n
    BY <2>1, <1>1
  <2>3. CASE j \in 1..n
    BY <1>1, <1>4, <2>1, <2>2, <2>3 DEF InOrder
  <2>4. CASE j = n + 1
    <3>1. q[i].stamp \in Of(q, g)
      BY <1>1, <2>1, <2>2 DEF Of
    <3>2. m.stamp \in One(m, g)
      BY <1>1, <2>1, <2>4 DEF One
    <3>3. QED
      BY <1>1, <1>4, <2>2, <2>4, <3>1, <3>2 DEF Before
  <2>5. QED
    BY <1>2, <2>3, <2>4
<1>5. QED
  BY <1>3, <1>4 DEF r

\* Taking the head off takes the oldest sample.
LEMMA TailOf ==
    ASSUME NEW q \in Seq(Metric), q # <<>>, NEW g
    PROVE  /\ Of(q, g) = One(Head(q), g) \cup Of(Tail(q), g)
           /\ InOrder(q, g) => /\ InOrder(Tail(q), g)
                               /\ Before(One(Head(q), g), Of(Tail(q), g))
<1> DEFINE r == Tail(q)
           n == Len(q)
<1>1. /\ n \in Nat \ {0} /\ Len(r) = n - 1
      /\ \A i \in 1..(n - 1) : r[i] = q[i + 1]
      /\ Head(q) = q[1]
  OBVIOUS
<1> HIDE DEF r, n
<1>2. /\ 1 \in 1..n
      /\ \A i \in 1..(n - 1) : i + 1 \in 1..n /\ 1 < i + 1
      /\ \A i \in 1..n : i # 1 => i - 1 \in 1..(n - 1) /\ r[i - 1] = q[i]
  BY <1>1
<1>3. Of(q, g) = One(Head(q), g) \cup Of(r, g)
  <2>1. ASSUME NEW s \in Of(q, g) PROVE s \in One(Head(q), g) \cup Of(r, g)
    <3>1. PICK i \in 1..n : q[i].name = g /\ s = q[i].stamp
      BY <2>1 DEF Of, n
    <3>2. CASE i = 1
      BY <1>1, <3>1, <3>2 DEF One
    <3>3. CASE i # 1
      <4>1. i - 1 \in 1..Len(r) /\ r[i - 1] = q[i]
        BY <1>1, <1>2, <3>3
      <4>2. QED
        BY <3>1, <4>1 DEF Of
    <3>4. QED
      BY <3>2, <3>3
  <2>2. ASSUME NEW s \in Of(r, g) PROVE s \in Of(q, g)
    <3>1. PICK i \in 1..(n - 1) : r[i].name = g /\ s = r[i].stamp
      BY <1>1, <2>2 DEF Of
    <3>2. i + 1 \in 1..n /\ r[i] = q[i + 1]
      BY <1>1, <1>2
    <3>3. QED
      BY <3>1, <3>2 DEF Of, n
  <2>3. One(Head(q), g) \subseteq Of(q, g)
    BY <1>1, <1>2 DEF Of, One, n
  <2>4. QED
    BY <2>1, <2>2, <2>3
<1>4. ASSUME InOrder(q, g)
      PROVE  InOrder(r, g) /\ Before(One(Head(q), g), Of(r, g))
  <2>1. \A i, j \in 1..n :
          i < j /\ q[i].name = g /\ q[j].name = g => q[i].stamp <= q[j].stamp
    BY <1>4 DEF InOrder, n
  <2>2. InOrder(r, g)
    <3>1. SUFFICES ASSUME NEW i \in 1..(n - 1), NEW j \in 1..(n - 1), i < j,
                          r[i].name = g, r[j].name = g
                   PROVE  r[i].stamp <= r[j].stamp
      BY <1>1 DEF InOrder
    <3>2. i + 1 < j + 1 /\ i + 1 \in 1..n /\ j + 1 \in 1..n
      BY <1>2, <3>1
    <3>3. r[i] = q[i + 1] /\ r[j] = q[j + 1]
      BY <1>1
    <3>4. QED
      BY <2>1, <3>1, <3>2, <3>3
  <2>3. Before(One(Head(q), g), Of(r, g))
    <3>1. SUFFICES ASSUME q[1].name = g, NEW b \in Of(r, g)
                   PROVE  q[1].stamp <= b
      BY <1>1 DEF Before, One
    <3>2. PICK i \in 1..(n - 1) : r[i].name = g /\ b = r[i].stamp
      BY <1>1, <3>1 DEF Of
    <3>3. QED
      BY <1>1, <1>2, <2>1, <3>1, <3>2
  <2>4. QED
    BY <2>2, <2>3
<1>5. QED
  BY <1>3, <1>4 DEF r

-----------------------------------------------------------------------------
(* The invariant *)

\* From the server back to the pollers samples get newer.
Chain(V, U, S, I, Q, P, R) ==
    /\ Before(V, U \cup S \cup I \cup Q \cup P \cup R)
    /\ Before(U, S \cup I \cup Q \cup P \cup R)
    /\ Before(S, I \cup Q \cup P \cup R)
    /\ Before(I, Q \cup P \cup R)
    /\ Before(Q, P \cup R)
    /\ Before(P, R)

\* A poller sends samples of its own gauges.
OwnSamples ==
    \A p \in Pollers, g \in Gauges :
        g \notin Sampled(p) => Of(pending[p], g) = {}

InChain(g) ==
    Chain({server.stamp[g]}, Reported(g), Stored(g), One(item, g), Of(ch, g),
          Waiting(g), Current(g))

Queues(g) == InOrder(ch, g) /\ \A p \in Pollers : InOrder(pending[p], g)

OrderInv == OwnSamples /\ \A g \in Gauges : InChain(g) /\ Queues(g)

\* What PollOnce builds: samples of the round, of the poller's own gauges.
LEMMA SampleOf ==
    ASSUME TypeOK, NEW p \in Pollers, NEW g \in Gauges
    PROVE  /\ Of(Sample(p), g) \subseteq {rounds[p]}
           /\ g \notin Sampled(p) => Of(Sample(p), g) = {}
           /\ InOrder(Sample(p), g)
<1> DEFINE n == Len(GaugesOf[p])
           s == Sample(p)
<1>1. n \in Nat
  BY AgentConstants
<1>2. s = [i \in 1..n |->
             [name |-> GaugesOf[p][i], delta |-> {}, stamp |-> rounds[p]]]
  BY DEF Sample
<1>3. rounds[p] \in Nat
  BY DEF TypeOK, Stamps
<1> HIDE DEF n, s
<1>4. /\ Len(s) = n
      /\ \A i \in 1..n : s[i].name = GaugesOf[p][i] /\ s[i].stamp = rounds[p]
  BY <1>1, <1>2
<1>5. Of(s, g) \subseteq {rounds[p]}
  BY <1>4 DEF Of
<1>6. ASSUME g \notin Sampled(p) PROVE Of(s, g) = {}
  BY <1>4, <1>6 DEF Of, Sampled, n
<1>7. InOrder(s, g)
  BY <1>3, <1>4 DEF InOrder
<1>8. QED
  BY <1>5, <1>6, <1>7 DEF s

\* Initially there are no samples.
LEMMA InitOrder == Init => OrderInv
<1> SUFFICES ASSUME Init PROVE OrderInv
  OBVIOUS
<1>1. store \in Maps
  BY AgentConstants DEF Init
<1>2. \A g : Of(<<>>, g) = {} /\ InOrder(<<>>, g)
  BY DEF Of, InOrder
<1>3. ASSUME NEW g \in Gauges PROVE InChain(g) /\ Queues(g)
  <2>1. Reported(g) = {} /\ Stored(g) = {} /\ Of(ch, g) = {}
    BY <1>1, <1>2 DEF Init, Reported, Stored, EmptyMap
  <2>2. Waiting(g) = {}
    BY <1>2 DEF Init, Waiting
  <2>3. One(item, g) = {}
    BY AgentConstants DEF Init, One, NoMetric
  <2>4. \A r \in Current(g) : r = 0
    BY DEF Init, Current
  <2>5. server.stamp[g] = 0
    BY DEF Init, EmptyMap
  <2>6. InChain(g)
    BY <2>1, <2>2, <2>3, <2>4, <2>5 DEF InChain, Chain, Before
  <2>7. QED
    BY <1>2, <2>6 DEF Queues, Init
<1>4. OwnSamples
  BY <1>2 DEF OwnSamples, Init
<1>5. QED
  BY <1>3, <1>4 DEF OrderInv

\* A sample that moves one place forward keeps the chain.
LEMMA ChainMoves ==
    ASSUME NEW V, NEW U, NEW S, NEW I, NEW Q, NEW P, NEW R,
           Chain(V, U, S, I, Q, P, R)
    PROVE  /\ \A H, T : P = H \cup T /\ Before(H, T)
                 => Before(Q, H) /\ Chain(V, U, S, I, Q \cup H, T, R)
           /\ \A H, T : Q = H \cup T /\ Before(H, T)
                 => Chain(V, U, S, H, T, P, R)
           /\ Chain(V, U, I, {}, Q, P, R)
           /\ Chain(V, U, S, {}, Q, P, R)
           /\ Chain(V, S, {}, I, Q, P, R)
           /\ Chain(U, {}, S, I, Q, P, R)
BY DEF Chain, Before
\* Stamps are numbers of rounds.
LEMMA StampsAreNat ==
    ASSUME TypeOK, Shape, NEW g \in Gauges
    PROVE  {server.stamp[g]} \cup Reported(g) \cup Stored(g) \cup One(item, g)
             \cup Of(ch, g) \cup Waiting(g) \subseteq Nat
<1>1. {server.stamp[g]} \cup Stored(g) \cup One(item, g) \subseteq Nat
  BY DEF TypeOK, Values, Metric, Stamps, Stored, One
<1>2. Reported(g) \subseteq Nat
  BY DEF TypeOK, Shape, Values, Stamps, Reported
<1>3. \A q \in Seq(Metric) : Of(q, g) \subseteq Nat
  BY DEF Of, Metric, Stamps
<1>4. QED
  BY <1>1, <1>2, <1>3 DEF Waiting, TypeOK

\* A gauge is sampled by one poller, whose round is the newest.
LEMMA OneRound ==
    ASSUME TypeOK, NEW p \in Pollers, NEW g \in Sampled(p)
    PROVE  \A r \in Current(g) : rounds[p] <= r
<1>1. \A q \in Pollers : g \in Sampled(q) => q = p
  BY OwnGauges
<1>2. rounds[p] \in Nat
  BY DEF TypeOK, Stamps
<1>3. QED
  BY <1>1, <1>2 DEF Current

\* Every step moves samples forward, or adds one that is the newest.
LEMMA NextOrder == TypeOK /\ Shape /\ OrderInv /\ [Next]_vars => OrderInv'
<1> SUFFICES ASSUME TypeOK, Shape, OrderInv, [Next]_vars PROVE OrderInv'
  OBVIOUS
<1> USE DEF sampling, merging, reporting, group
<1>inv. ASSUME NEW g \in Gauges PROVE InChain(g) /\ Queues(g)
  BY DEF OrderInv
<1>own. OwnSamples
  BY DEF OrderInv
<1>pend. \A p \in Pollers : pending[p] \in Seq(Metric)
  BY DEF TypeOK
<1>name. \A g \in Gauges : g # PollCount /\ One(NoMetric, g) = {}
  BY AgentConstants DEF One, NoMetric
\* What the sampling side keeps.
<1>keep. ASSUME UNCHANGED pending
         PROVE  /\ OwnSamples'
                /\ \A g \in Gauges : Waiting(g)' = Waiting(g)
                /\ \A g \in Gauges, p \in Pollers : InOrder(pending[p], g)'
  BY <1>inv, <1>own, <1>keep DEF OwnSamples, Waiting, Queues
<1>same. ASSUME UNCHANGED <<rounds, pending, ch, item>>,
                \A g \in Gauges : InChain(g)'
         PROVE  OrderInv'
  BY <1>inv, <1>keep, <1>same DEF OrderInv, Queues
<1>all. ASSUME UNCHANGED <<rounds, pending, ch, item, server>>,
               \A g \in Gauges : Stored(g)' = Stored(g) /\ Reported(g)' = Reported(g)
        PROVE  OrderInv'
  <2>1. ASSUME NEW g \in Gauges PROVE InChain(g)'
    BY <1>inv, <1>keep, <1>all DEF InChain, Current
  <2>2. QED
    BY <1>all, <1>same, <2>1
<1>1. ASSUME NEW p \in Pollers, Tick(p) PROVE OrderInv'
  <2>1. /\ UNCHANGED <<pending, ch, item, heap, store, report, toSend, server>>
        /\ rounds' = [rounds EXCEPT ![p] = rounds[p] + 1]
        /\ rounds \in [Pollers -> Nat]
    BY <1>1 DEF Tick, TypeOK, Stamps
  <2>2. ASSUME NEW g \in Gauges PROVE InChain(g)'
    <3> DEFINE A == {server.stamp[g]} \cup Reported(g) \cup Stored(g)
                       \cup One(item, g) \cup Of(ch, g) \cup Waiting(g)
    <3>1. A \subseteq Nat
      BY StampsAreNat
    <3>2. Before(A, Current(g))
      BY <1>inv DEF InChain, Chain, Before
    <3>3. Before(A, Current(g)')
      <4>1. SUFFICES ASSUME NEW a \in A, NEW q \in Pollers, g \in Sampled(q)
                     PROVE  a <= rounds'[q]
        BY DEF Before, Current
      <4>2. a <= rounds[q] /\ a \in Nat /\ rounds[q] \in Nat
        BY <2>1, <3>1, <3>2, <4>1 DEF Before, Current
      <4>3. rounds'[q] \in {rounds[q], rounds[q] + 1}
        BY <2>1
      <4>4. QED
        BY <4>2, <4>3
    <3>4. /\ Waiting(g)' = Waiting(g)
          /\ Reported(g)' = Reported(g) /\ Stored(g)' = Stored(g)
      BY <1>keep, <2>1 DEF Reported, Stored
    <3>5. InChain(g)
      BY <1>inv
    <3>6. QED
      BY <2>1, <3>3, <3>4, <3>5 DEF InChain, Chain, Before
  <2>3. QED
    BY <1>inv, <1>keep, <2>1, <2>2 DEF OrderInv, Queues
<1>2. ASSUME NEW p \in Pollers, Collect(p) PROVE OrderInv'
  <2> DEFINE m == [NoMetric EXCEPT !.delta = counter]
             s == pending'[p]
  <2>1. /\ UNCHANGED <<rounds, ch, item, heap, store, report, toSend, server>>
        /\ pending' = [pending EXCEPT ![p] = s]
        /\ s = Sample(p) \/ s = Append(Sample(p), m)
    BY <1>2 DEF Collect, TypeOK
  <2>2. m \in Metric /\ \A g \in Gauges : One(m, g) = {}
    BY <1>name DEF NoMetric, Metric, TypeOK, Names, Stamps, One
  <2> HIDE DEF m
  <2>3. ASSUME NEW g \in Gauges
        PROVE  /\ Of(s, g) \subseteq {rounds[p]}
               /\ g \notin Sampled(p) => Of(s, g) = {}
               /\ InOrder(s, g)
    <3>1. /\ Of(Sample(p), g) \subseteq {rounds[p]}
          /\ g \notin Sampled(p) => Of(Sample(p), g) = {}
          /\ InOrder(Sample(p), g)
          /\ Sample(p) \in Seq(Metric)
      BY SampleOf, SampleType
    <3>2. Before(Of(Sample(p), g), One(m, g))
      BY <2>2 DEF Before
    <3>3. Of(Append(Sample(p), m), g) = Of(Sample(p), g)
          /\ InOrder(Append(Sample(p), m), g)
      <4>1. /\ Of(Append(Sample(p), m), g) = Of(Sample(p), g) \cup One(m, g)
            /\ InOrder(Sample(p), g) /\ Before(Of(Sample(p), g), One(m, g))
                 => InOrder(Append(Sample(p), m), g)
        BY <2>2, <3>1, AppendOf
      <4>2. QED
        BY <2>2, <3>1, <3>2, <4>1
    <3>4. QED
      BY <2>1, <3>1, <3>3
  <2> HIDE DEF s
  <2>4. /\ pending'[p] = s
        /\ \A q \in Pollers : q # p => pending'[q] = pending[q]
    BY <2>1 DEF TypeOK
  <2>5. ASSUME NEW g \in Gauges PROVE InChain(g)'
    <3>1. /\ Reported(g)' = Reported(g) /\ Stored(g)' = Stored(g)
          /\ Current(g)' = Current(g)
      BY <2>1 DEF Reported, Stored, Current
    <3>2. Waiting(g)' \subseteq Waiting(g) \cup Of(s, g)
      BY <2>4 DEF Waiting
    <3>3. Of(s, g) \subseteq Current(g)
      BY <2>3 DEF Current
    <3>4. Before(Of(s, g), Current(g))
      BY <2>3, OneRound DEF Before
    <3>5. InChain(g)
      BY <1>inv
    <3>6. QED
      BY <2>1, <3>1, <3>2, <3>3, <3>4, <3>5 DEF InChain, Chain, Before
  <2>6. OwnSamples'
    BY <1>own, <2>3, <2>4 DEF OwnSamples
  <2>7. ASSUME NEW g \in Gauges, NEW q \in Pollers PROVE InOrder(pending'[q], g)
    BY <1>inv, <2>3, <2>4 DEF Queues
  <2>8. QED
    BY <1>inv, <2>1, <2>5, <2>6, <2>7 DEF OrderInv, Queues
<1>3. ASSUME NEW p \in Pollers, Register(p) PROVE OrderInv'
  <2> DEFINE h == Head(pending[p])
             t == Tail(pending[p])
  <2>1. /\ UNCHANGED <<rounds, item, heap, store, report, toSend, server>>
        /\ ch' = Append(ch, h) /\ ch \in Seq(Metric)
        /\ pending' = [pending EXCEPT ![p] = t]
        /\ pending[p] # <<>> /\ pending[p] \in Seq(Metric)
    BY <1>3 DEF Register, TypeOK, Shape
  <2>2. /\ pending'[p] = t
        /\ \A q \in Pollers : q # p => pending'[q] = pending[q]
    BY <2>1 DEF TypeOK
  <2>3. h \in Metric
    BY <2>1, QueueTail
  <2>4. ASSUME NEW g \in Gauges
        PROVE  /\ Of(pending[p], g) = One(h, g) \cup Of(t, g)
               /\ InOrder(t, g) /\ Before(One(h, g), Of(t, g))
               /\ Of(ch', g) = Of(ch, g) \cup One(h, g)
               /\ Before(Of(ch, g), One(h, g)) => InOrder(ch', g)
    BY <1>inv, <2>1, <2>3, TailOf, AppendOf DEF Queues
  <2> HIDE DEF h, t
  <2>5. ASSUME NEW g \in Gauges
        PROVE  InChain(g)' /\ InOrder(ch', g)
    <3>1. /\ Reported(g)' = Reported(g) /\ Stored(g)' = Stored(g)
          /\ Current(g)' = Current(g)
      BY <2>1 DEF Reported, Stored, Current
    <3>2. Waiting(g) = One(h, g) \cup Waiting(g)'
      BY <2>2, <2>4 DEF Waiting
    <3>3. Before(One(h, g), Waiting(g)')
      <4>1. CASE g \in Sampled(p)
        <5>1. \A q \in Pollers : q # p => Of(pending[q], g) = {}
          BY <4>1, <1>own, OwnGauges DEF OwnSamples
        <5>2. Waiting(g)' = Of(t, g)
          BY <2>2, <5>1 DEF Waiting
        <5>3. QED
          BY <2>4, <5>2
      <4>2. CASE g \notin Sampled(p)
        <5>1. One(h, g) = {}
          BY <4>2, <1>own, <2>4 DEF OwnSamples
        <5>2. QED
          BY <5>1 DEF Before
      <4>3. QED
        BY <4>1, <4>2
    <3>4. /\ Before(Of(ch, g), One(h, g))
          /\ Chain({server.stamp[g]}, Reported(g), Stored(g), One(item, g),
                   Of(ch, g) \cup One(h, g), Waiting(g)', Current(g))
      BY <1>inv, <3>2, <3>3, ChainMoves DEF InChain
    <3>5. QED
      BY <2>1, <2>4, <3>1, <3>4 DEF InChain
  <2>6. OwnSamples'
    BY <1>own, <2>2, <2>4 DEF OwnSamples
  <2>7. ASSUME NEW g \in Gauges, NEW q \in Pollers PROVE InOrder(pending'[q], g)
    BY <1>inv, <2>2, <2>4 DEF Queues
  <2>8. QED
    BY <2>5, <2>6, <2>7 DEF OrderInv, Queues
<1>4. CASE Receive
  <2> DEFINE h == Head(ch)
             t == Tail(ch)
  <2>1. /\ UNCHANGED <<rounds, pending, heap, store, report, toSend, server>>
        /\ item' = h /\ ch' = t
        /\ ch # <<>> /\ ch \in Seq(Metric) /\ item = NoMetric
    BY <1>4 DEF Receive, TypeOK, Shape
  <2>2. ASSUME NEW g \in Gauges
        PROVE  /\ Of(ch, g) = One(h, g) \cup Of(t, g)
               /\ InOrder(t, g) /\ Before(One(h, g), Of(t, g))
    BY <1>inv, <2>1, TailOf DEF Queues
  <2> HIDE DEF h, t
  <2>3. ASSUME NEW g \in Gauges PROVE InChain(g)'
    <3>1. /\ Reported(g)' = Reported(g) /\ Stored(g)' = Stored(g)
          /\ Current(g)' = Current(g) /\ Waiting(g)' = Waiting(g)
      BY <1>keep, <2>1 DEF Reported, Stored, Current
    <3>2. Chain({server.stamp[g]}, Reported(g), Stored(g), One(h, g), Of(t, g),
                Waiting(g), Current(g))
      BY <1>inv, <2>2, ChainMoves DEF InChain
    <3>3. QED
      BY <2>1, <3>1, <3>2 DEF InChain
  <2>4. QED
    BY <1>keep, <2>1, <2>2, <2>3 DEF OrderInv, Queues
<1>5. CASE Merge
  <2>1. /\ UNCHANGED <<rounds, pending, ch, store, report, toSend, server>>
        /\ item' = NoMetric
        /\ heap' = [heap EXCEPT ![store] = SetOrUpdate(heap[store], item)]
        /\ item \in Metric /\ heap[store] \in Values /\ store \in Maps
    BY <1>5 DEF Merge, TypeOK
  <2>2. ASSUME NEW g \in Gauges PROVE InChain(g)'
    <3>1. /\ Current(g)' = Current(g) /\ Waiting(g)' = Waiting(g)
          /\ One(item', g) = {}
      BY <1>keep, <1>name, <2>1 DEF Current
    <3>2. Reported(g)' = Reported(g)
      BY <2>1 DEF Reported, Shape, TypeOK
    <3>3. heap'[store] = SetOrUpdate(heap[store], item)
      BY <2>1 DEF TypeOK
    <3>4. Stored(g)' = Stored(g) \/ Stored(g)' \subseteq One(item, g)
      BY <1>name, <2>1, <3>3 DEF Stored, SetOrUpdate, One, Values
    <3>5. InChain(g)
      BY <1>inv
    <3>6. QED
      BY <2>1, <3>1, <3>2, <3>4, <3>5 DEF InChain, Chain, Before
  <2>3. QED
    BY <1>inv, <1>keep, <2>1, <2>2 DEF OrderInv, Queues
<1>6. CASE Reset
  <2>1. /\ UNCHANGED <<rounds, pending, ch, item, report, server>>
        /\ report = store /\ toSend' = Present(heap[report])
    BY <1>6 DEF Reset, Shape
  <2>2. PICK h \in Maps \ {store, report} :
          store' = h /\ heap' = [heap EXCEPT ![h] = EmptyMap]
    BY <1>6 DEF Reset
  <2>3. heap'[store'] = EmptyMap /\ heap'[report] = heap[report]
    BY <2>1, <2>2 DEF TypeOK
  <2>4. ASSUME NEW g \in Gauges PROVE InChain(g)'
    <3>1. Current(g)' = Current(g) /\ Waiting(g)' = Waiting(g)
      BY <1>keep, <2>1 DEF Current
    <3>2. Stored(g)' = {}
      BY <2>3 DEF Stored, EmptyMap
    <3>3. Reported(g)' = Stored(g)
      BY <1>name, <2>1, <2>3 DEF Reported, Stored, Present
    <3>4. QED
      BY <1>inv, <2>1, <3>1, <3>2, <3>3, ChainMoves DEF InChain
  <2>5. QED
    BY <1>same, <2>1, <2>4
<1>7. CASE Deliver \/ DeliverLate
  <2>1. UNCHANGED <<rounds, pending, ch, item, heap, store, report>>
    BY <1>7 DEF Deliver, DeliverLate
  <2>2. PICK B \in (SUBSET toSend) \ {{}} : Apply(B)
    BY <1>7 DEF Deliver, DeliverLate
  <2>3. ASSUME NEW g \in Gauges PROVE InChain(g)'
    <3>1. /\ Current(g)' = Current(g) /\ Waiting(g)' = Waiting(g)
          /\ Stored(g)' = Stored(g)
      BY <1>keep, <2>1 DEF Current, Stored
    <3>2. \/ /\ g \in toSend
             /\ server'.stamp[g] = heap[report].stamp[g] /\ Reported(g)' = {}
          \/ server'.stamp[g] = server.stamp[g] /\ Reported(g)' = Reported(g)
      BY <2>1, <2>2 DEF Apply, Reported
    <3>3. \/ {server'.stamp[g]} = Reported(g) /\ Reported(g)' = {}
          \/ server'.stamp[g] = server.stamp[g] /\ Reported(g)' = Reported(g)
      BY <3>2 DEF Reported
    <3>4. InChain(g) /\ Chain(Reported(g), {}, Stored(g), One(item, g), Of(ch, g),
                              Waiting(g), Current(g))
      BY <1>inv, ChainMoves DEF InChain
    <3>5. QED
      BY <2>1, <3>1, <3>3, <3>4 DEF InChain
  <2>4. QED
    BY <1>same, <2>1, <2>3
<1>8. CASE SendReturns
  <2>1. /\ UNCHANGED <<rounds, pending, ch, item, store, toSend, server>>
        /\ toSend = {} /\ report # store
    BY <1>8 DEF SendReturns, Shape
  <2>2. heap'[store] = heap[store]
    BY <1>8, <2>1 DEF SendReturns, TypeOK
  <2>3. QED
    BY <1>all, <2>1, <2>2 DEF Stored, Reported
<1>9. ASSUME NEW p \in Pollers, CollectFails(p) \/ PollStops(p) PROVE OrderInv'
  BY <1>9, <1>all DEF CollectFails, PollStops, Stored, Reported
<1>10. CASE AggregatorStops \/ SendFails \/ ReporterStops
  BY <1>10, <1>all DEF AggregatorStops, SendFails, ReporterStops, Stored, Reported
<1>11. CASE GetMetrics
  <2>1. /\ UNCHANGED <<rounds, pending, ch, item, heap, store, toSend, server>>
        /\ toSend = {}
    BY <1>11 DEF GetMetrics, Shape
  <2>2. QED
    BY <1>all, <2>1 DEF Stored, Reported
<1>12. CASE MainStep
  BY <1>12, <1>all DEF MainStep, NewReporter, NewReporterFails, Signal, Exit,
                       Stored, Reported
<1>13. CASE UNCHANGED vars
  BY <1>13, <1>all DEF vars, Stored, Reported
<1>14. QED
  BY <1>1, <1>2, <1>3, <1>4, <1>5, <1>6, <1>7, <1>8, <1>9, <1>10, <1>11,
     <1>12, <1>13
  DEF Next, PollerStep, AggregatorStep, ReporterStep, Exited

\* A step gives the server only newer samples.
LEMMA StepMovesForward ==
    OrderInv /\ TypeOK /\ [Next]_vars
        => \A g \in Gauges : server'.stamp[g] >= server.stamp[g]
<1> SUFFICES ASSUME OrderInv, TypeOK, [Next]_vars, NEW g \in Gauges
             PROVE  server'.stamp[g] >= server.stamp[g]
  OBVIOUS
<1> USE DEF sampling, merging, reporting, group
<1>1. server.stamp[g] \in Nat
  BY DEF TypeOK, Values, Stamps
<1>2. CASE Deliver \/ DeliverLate
  <2>1. PICK B \in (SUBSET toSend) \ {{}} : Apply(B)
    BY <1>2 DEF Deliver, DeliverLate
  <2>2. \/ g \in toSend /\ server'.stamp[g] = heap[report].stamp[g]
        \/ server'.stamp[g] = server.stamp[g]
    BY <2>1 DEF Apply
  <2>3. Before({server.stamp[g]}, Reported(g))
    BY DEF OrderInv, InChain, Chain, Before
  <2>4. g \in toSend => server.stamp[g] <= heap[report].stamp[g]
    BY <2>3 DEF Before, Reported
  <2>5. CASE server'.stamp[g] = server.stamp[g]
    BY <1>1, <2>5
  <2>6. CASE g \in toSend /\ server'.stamp[g] = heap[report].stamp[g]
    BY <2>4, <2>6
  <2>7. QED
    BY <2>2, <2>5, <2>6
<1>3. ASSUME ~(Deliver \/ DeliverLate) PROVE server' = server
  <2>1. ASSUME NEW p \in Pollers, PollerStep(p) PROVE server' = server
    BY <2>1 DEF PollerStep, Tick, Collect, CollectFails, Register, PollStops
  <2>2. ASSUME AggregatorStep \/ MainStep PROVE server' = server
    BY <2>2 DEF AggregatorStep, Receive, Merge, AggregatorStops,
                MainStep, NewReporter, NewReporterFails, Signal, Exit
  <2>3. ASSUME ReporterStep PROVE server' = server
    BY <1>3, <2>3 DEF ReporterStep, GetMetrics, Reset, SendReturns, SendFails,
                      ReporterStops
  <2>4. ASSUME UNCHANGED vars PROVE server' = server
    BY <2>4 DEF vars
  <2>5. QED
    BY <2>1, <2>2, <2>3, <2>4 DEF Next, Exited
<1>4. QED
  BY <1>1, <1>2, <1>3

\* OrderInv holds in every reachable state.
LEMMA AgentKeepsOrder == Spec => []OrderInv
BY InitOrder, NextOrder, AgentTypes, PTL DEF Spec

\* The server never replaces a sample of a gauge by an older one, however full
\* the channel is and whichever reports fail or arrive late (GaugesMoveForward).
THEOREM GaugesMoveForwardTheorem == Spec => GaugesMoveForward
<1>1. Spec => [][Next]_vars
  BY DEF Spec
<1>2. QED
  BY <1>1, AgentTypes, AgentKeepsOrder, StepMovesForward, PTL
  DEF GaugesMoveForward
=============================================================================
