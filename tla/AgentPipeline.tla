--------------------------- MODULE AgentPipeline ---------------------------
(***************************************************************************)
(* The metrics agent: internal/agent/{agent,poller*,aggregator,reporter}.go *)
(* and the part of internal/storage/memstorage it uses.                    *)
(*                                                                         *)
(* Pollers count every poll in a shared atomic counter and put metrics on  *)
(* a bounded channel; one aggregator merges them into the in-memory map;   *)
(* the reporter takes that map BY REFERENCE (GetMetrics returns the live   *)
(* map), gives the storage a new one (Reset) and sends the old one.  All   *)
(* run in one errgroup: the first error, or a signal, cancels them all.    *)
(*                                                                         *)
(* Data abstraction.  A counter value is the set of the polls it counts,   *)
(* so that its int64 value is the cardinality of the set and a poll that   *)
(* is dropped or counted twice can be seen.  A gauge value is the number   *)
(* of the round its poller sampled it in, 0 standing for no value.          *)
(***************************************************************************)
EXTENDS Integers, Sequences

CONSTANTS
    Pollers,       \* the goroutines running Poll
    CustomPoller,  \* the one whose PollOnce swaps the counter out
    Fallible,      \* those whose PollOnce can return an error
    Gauges,        \* gauge names
    GaugesOf,      \* GaugesOf[p]: the gauges p registers, in its order
    PollCount,     \* the counter's name
    Cap,           \* capacity of pollCh
    Maps,          \* identities of Go map objects
    NoMap,         \* the reporter holds no map
    MaxRounds      \* bound: MaxRounds[p] is the number of polls of p in a run

ASSUME AgentConstants ==
    /\ CustomPoller \in Pollers
    /\ Fallible \subseteq Pollers \ {CustomPoller}
    /\ PollCount \notin Gauges
    /\ GaugesOf \in [Pollers -> Seq(Gauges) \ {<<>>}]
    /\ Cap \in Nat \ {0}
    /\ Maps # {} /\ NoMap \notin Maps
    /\ MaxRounds \in [Pollers -> Nat]

\* The gauges a poller samples.
Sampled(p) == {GaugesOf[p][i] : i \in 1..Len(GaugesOf[p])}

\* Their names differ (poller_runtime.go, poller_ps.go, poller_custom.go).
ASSUME OwnGauges ==
    \A p, q \in Pollers : p # q => Sampled(p) \cap Sampled(q) = {}

Names == Gauges \cup {PollCount}
Polls == UNION {{p} \X (1..MaxRounds[p]) : p \in Pollers}
Stamps == Nat

\* model.Metric: a counter has a delta, a gauge a stamp.
Metric ==
    {m \in [name : Names, delta : SUBSET Polls, stamp : Stamps] :
        m.name # PollCount => m.delta = {}}
\* map[string]model.Metric, and what the server holds: absent entries are
\* the empty delta and the zero stamp.
Values == [delta : SUBSET Polls, stamp : [Gauges -> Stamps]]

NoMetric == [name |-> PollCount, delta |-> {}, stamp |-> 0]
EmptyMap == [delta |-> {}, stamp |-> [g \in Gauges |-> 0]]

\* SetOrUpdateMetric: a counter adds up, a gauge is replaced.
SetOrUpdate(m, metric) ==
    IF metric.name = PollCount
    THEN [m EXCEPT !.delta = @ \cup metric.delta]
    ELSE [m EXCEPT !.stamp[metric.name] = metric.stamp]

Present(m) == {g \in Gauges : m.stamp[g] # 0}
                \cup (IF m.delta # {} THEN {PollCount} ELSE {})

VARIABLES
    rounds,    \* rounds[p]: the polls p has counted with counter.Add(1)
    counter,   \* the polls added to `counter` since its last Swap(0)
    pc,        \* control state of each poller
    pending,   \* metrics its PollOnce still has to put on the channel
    ch,        \* pollCh
    agg,       \* control state of RunAggregator
    item,      \* the metric it received and has not merged
    heap,      \* contents of the map objects
    store,     \* the map object MemoryStorage.Metrics refers to
    rep,       \* control state of RunReporter
    report,    \* the map object the reporter refers to
    toSend,    \* names of the report the server has not applied
    server,    \* the values the server accumulated from this agent
    cancelled, \* the errgroup's context is done
    signalled, \* a termination signal arrived
    firstErr,  \* the error errgroup keeps
    main       \* control state of Run

sampling == <<rounds, counter, pc, pending>>
merging == <<agg, item>>
reporting == <<rep, report, toSend, server>>
group == <<cancelled, firstErr>>
vars == <<sampling, ch, merging, heap, store, reporting,
          group, signalled, main>>

TypeOK ==
    /\ rounds \in [Pollers -> Stamps]
    /\ counter \in SUBSET Polls
    /\ pc \in [Pollers -> {"start", "wait", "poll", "send", "done"}]
    /\ pending \in [Pollers -> Seq(Metric)]
    /\ ch \in Seq(Metric) /\ Len(ch) <= Cap
    /\ agg \in {"recv", "merge", "done"}
    /\ item \in Metric
    /\ heap \in [Maps -> Values]
    /\ store \in Maps
    /\ rep \in {"unborn", "idle", "got", "send", "done"}
    /\ report \in Maps \cup {NoMap}
    /\ toSend \in SUBSET Names
    /\ server \in Values
    /\ cancelled \in BOOLEAN /\ signalled \in BOOLEAN
    /\ firstErr \in {"none", "canceled", "failure"}
    /\ main \in {"starting", "waiting", "ok", "failed"}

Init ==
    /\ rounds = [p \in Pollers |-> 0]
    /\ counter = {}
    /\ pc = [p \in Pollers |-> "start"]
    /\ pending = [p \in Pollers |-> <<>>]
    /\ ch = <<>>
    /\ agg = "recv" /\ item = NoMetric
    /\ heap = [h \in Maps |-> EmptyMap]
    /\ store = CHOOSE h \in Maps : TRUE
    /\ rep = "unborn" /\ report = NoMap /\ toSend = {}
    /\ server = EmptyMap
    /\ cancelled = FALSE /\ signalled = FALSE
    /\ firstErr = "none"
    /\ main = "starting"

\* Run has not returned, so the goroutines are alive.
Running == main \in {"starting", "waiting"}

\* Mutant: the last error is kept.
ReturnKeepsLast(err) ==
    /\ firstErr' = err
    /\ cancelled' = TRUE

\* A goroutine of the errgroup returns err: the first error is kept and the
\* context the others watch is cancelled.
Return(err) ==
    /\ firstErr' = IF firstErr = "none" THEN err ELSE firstErr
    /\ cancelled' = TRUE

-----------------------------------------------------------------------------
(* Poll and PollOnce *)

\* The first poll, or a tick of the ticker: a select with both cases ready
\* may take the tick although the context is done.
Tick(p) ==
    /\ Running
    /\ pc[p] \in {"start", "wait"}
    /\ rounds[p] < MaxRounds[p]
    /\ rounds' = [rounds EXCEPT ![p] = @ + 1]
    /\ counter' = counter \cup {<<p, rounds[p] + 1>>}
    /\ pc' = [pc EXCEPT ![p] = "poll"]
    /\ UNCHANGED <<pending, ch, merging, heap, store, reporting, group,
                   signalled, main>>

Sample(p) ==
    [i \in 1..Len(GaugesOf[p]) |->
        [name |-> GaugesOf[p][i], delta |-> {}, stamp |-> rounds[p]]]

\* The list of metrics is built at once, which is when counter.Swap(0) runs.
Collect(p) ==
    /\ Running
    /\ pc[p] = "poll"
    /\ IF p = CustomPoller
       THEN /\ pending' = [pending EXCEPT ![p] =
                 Append(Sample(p), [NoMetric EXCEPT !.delta = counter])]
            /\ counter' = {}
       ELSE /\ pending' = [pending EXCEPT ![p] = Sample(p)]
            /\ UNCHANGED counter
    /\ pc' = [pc EXCEPT ![p] = "send"]
    /\ UNCHANGED <<rounds, ch, merging, heap, store, reporting, group,
                   signalled, main>>

CollectFails(p) ==
    /\ Running
    /\ p \in Fallible
    /\ pc[p] = "poll"
    /\ pc' = [pc EXCEPT ![p] = "done"]
    /\ Return("failure")
    /\ UNCHANGED <<rounds, counter, pending, ch, merging, heap, store,
                   reporting, signalled, main>>

\* Mutant: the channel takes one metric more than it has room for.
RegisterOneTooMany(p) ==
    /\ Running
    /\ pc[p] = "send"
    /\ Len(ch) <= Cap
    /\ ch' = Append(ch, Head(pending[p]))
    /\ pending' = [pending EXCEPT ![p] = Tail(@)]
    /\ pc' = [pc EXCEPT ![p] = IF Tail(pending[p]) = <<>> THEN "wait" ELSE "send"]
    /\ UNCHANGED <<rounds, counter, merging, heap, store, reporting, group,
                   signalled, main>>

\* registerMetric: `ch <- metric` waits for room and for nothing else.
Register(p) ==
    /\ Running
    /\ pc[p] = "send"
    /\ Len(ch) < Cap
    /\ ch' = Append(ch, Head(pending[p]))
    /\ pending' = [pending EXCEPT ![p] = Tail(@)]
    /\ pc' = [pc EXCEPT ![p] = IF Tail(pending[p]) = <<>> THEN "wait" ELSE "send"]
    /\ UNCHANGED <<rounds, counter, merging, heap, store, reporting, group,
                   signalled, main>>

\* Mutant: the context is looked at before the first poll only.
PollStopsEarlyOrNever(p) ==
    /\ Running
    /\ pc[p] = "start"
    /\ cancelled
    /\ pc' = [pc EXCEPT ![p] = "done"]
    /\ Return("canceled")
    /\ UNCHANGED <<rounds, counter, pending, ch, merging, heap, store,
                   reporting, signalled, main>>

PollStops(p) ==
    /\ Running
    /\ pc[p] = "wait"
    /\ cancelled
    /\ pc' = [pc EXCEPT ![p] = "done"]
    /\ Return("canceled")
    /\ UNCHANGED <<rounds, counter, pending, ch, merging, heap, store,
                   reporting, signalled, main>>

-----------------------------------------------------------------------------
(* RunAggregator *)

\* Mutant: several aggregators, whose merges overtake each other.
ReceiveAny ==
    /\ Running
    /\ agg = "recv"
    /\ \E k \in 1..Len(ch) :
          /\ item' = ch[k]
          /\ ch' = SubSeq(ch, 1, k - 1) \o SubSeq(ch, k + 1, Len(ch))
    /\ agg' = "merge"
    /\ UNCHANGED <<sampling, heap, store, reporting, group, signalled, main>>

Receive ==
    /\ Running
    /\ agg = "recv"
    /\ ch # <<>>
    /\ item' = Head(ch)
    /\ ch' = Tail(ch)
    /\ agg' = "merge"
    /\ UNCHANGED <<sampling, heap, store, reporting, group, signalled, main>>

\* merge: SetOrUpdateMetric under the storage's lock, on the map it finds there.
Merge ==
    /\ Running
    /\ agg = "merge"
    /\ heap' = [heap EXCEPT ![store] = SetOrUpdate(@, item)]
    /\ item' = NoMetric
    /\ agg' = "recv"
    /\ UNCHANGED <<sampling, ch, store, reporting, group, signalled, main>>

AggregatorStops ==
    /\ Running
    /\ agg = "recv"
    /\ cancelled
    /\ agg' = "done"
    /\ Return("canceled")
    /\ UNCHANGED <<sampling, ch, item, heap, store, reporting, signalled, main>>

-----------------------------------------------------------------------------
(* RunReporter *)

\* The tick's GetMetrics hands out the storage's own map.
GetMetrics ==
    /\ Running
    /\ rep = "idle"
    /\ report' = store
    /\ rep' = "got"
    /\ UNCHANGED <<sampling, ch, merging, heap, store, toSend, server, group,
                   signalled, main>>

\* Mutant: Reset empties the map in place.
ResetInPlace ==
    /\ Running
    /\ rep = "got"
    /\ heap' = [heap EXCEPT ![store] = EmptyMap]
    /\ rep' = "send"
    /\ toSend' = Present(heap[report])
    /\ UNCHANGED <<sampling, ch, merging, store, report, server, group,
                   signalled, main>>

\* Mutant: Reset is left for after SendMetrics.
ResetAfterSend ==
    /\ Running
    /\ rep = "got"
    /\ rep' = "send"
    /\ toSend' = Present(heap[report])
    /\ UNCHANGED <<sampling, ch, merging, heap, store, report, server, group,
                   signalled, main>>

\* Reset makes a new map; then SendMetrics starts reading the old one.
Reset ==
    /\ Running
    /\ rep = "got"
    /\ \E h \in Maps \ {store, report} :
          /\ store' = h
          /\ heap' = [heap EXCEPT ![h] = EmptyMap]
    /\ rep' = "send"
    /\ toSend' = Present(heap[report])
    /\ UNCHANGED <<sampling, ch, merging, report, server, group,
                   signalled, main>>

\* The server applies a batch of the report.
Apply(B) ==
    /\ server' = [delta |-> IF PollCount \in B
                            THEN server.delta \cup heap[report].delta
                            ELSE server.delta,
                  stamp |-> [g \in Gauges |->
                               IF g \in B THEN heap[report].stamp[g]
                                          ELSE server.stamp[g]]]
    /\ toSend' = toSend \ B

Deliver ==
    /\ Running
    /\ rep = "send"
    /\ \E B \in (SUBSET toSend) \ {{}} : Apply(B)
    /\ UNCHANGED <<sampling, ch, merging, heap, store, rep, report, group,
                   signalled, main>>

\* Everything was applied: the reporter drops its map, which is collected
\* unless the storage still has it.
SendReturns ==
    /\ Running
    /\ rep = "send"
    /\ toSend = {}
    /\ report' = NoMap
    /\ heap' = [heap EXCEPT ![report] = IF report = store THEN @ ELSE EmptyMap]
    /\ rep' = "idle"
    /\ UNCHANGED <<sampling, ch, merging, store, toSend, server, group,
                   signalled, main>>

\* Mutant: the failed report is sent again as a whole.
SendFailsResends ==
    /\ Running
    /\ rep = "send"
    /\ Present(heap[report]) # {}
    /\ rep' = "done"
    /\ Return("failure")
    /\ toSend' = Present(heap[report])
    /\ UNCHANGED <<sampling, ch, merging, heap, store, report, server,
                   signalled, main>>

\* Mutant: the error is logged and the report dropped.
SendFailsSilently ==
    /\ Running
    /\ rep = "send"
    /\ Present(heap[report]) # {}
    /\ rep' = "idle"
    /\ report' = NoMap
    /\ toSend' = {}
    /\ heap' = [heap EXCEPT ![report] = EmptyMap]
    /\ UNCHANGED <<sampling, ch, merging, store, server, group,
                   signalled, main>>

\* A batch is refused, or its answer does not come in time: the error ends
\* the reporter, and with it the agent.
SendFails ==
    /\ Running
    /\ rep = "send"
    /\ Present(heap[report]) # {}
    /\ rep' = "done"
    /\ \/ Return("failure")
       \/ cancelled /\ Return("canceled")
    /\ UNCHANGED <<sampling, ch, merging, heap, store, report, toSend, server,
                   signalled, main>>

\* The server applies a batch the agent has given up waiting for.
DeliverLate ==
    /\ rep = "done"
    /\ \E B \in (SUBSET toSend) \ {{}} : Apply(B)
    /\ UNCHANGED <<sampling, ch, merging, heap, store, rep, report, group,
                   signalled, main>>

ReporterStops ==
    /\ Running
    /\ rep = "idle"
    /\ cancelled
    /\ rep' = "done"
    /\ Return("canceled")
    /\ UNCHANGED <<sampling, ch, merging, heap, store, report, toSend, server,
                   signalled, main>>

-----------------------------------------------------------------------------
(* Run *)

\* NewReporter is called when the other goroutines are already running.
NewReporter ==
    /\ main = "starting"
    /\ main' = "waiting"
    /\ rep' = "idle"
    /\ UNCHANGED <<sampling, ch, merging, heap, store, report, toSend, server,
                   group, signalled>>

\* Run returns the error without waiting for them.
NewReporterFails ==
    /\ main = "starting"
    /\ main' = "failed"
    /\ UNCHANGED <<sampling, ch, merging, heap, store, reporting, group,
                   signalled>>

Signal ==
    /\ Running
    /\ ~signalled
    /\ signalled' = TRUE
    /\ cancelled' = TRUE
    /\ UNCHANGED <<sampling, ch, merging, heap, store, reporting, firstErr,
                   main>>

AllDone ==
    /\ \A p \in Pollers : pc[p] = "done"
    /\ agg = "done"
    /\ rep = "done"

\* eg.Wait returns; context.Canceled is a clean shutdown.
Exit ==
    /\ main = "waiting"
    /\ AllDone
    /\ main' = IF firstErr = "failure" THEN "failed" ELSE "ok"
    /\ UNCHANGED <<sampling, ch, merging, heap, store, reporting, group,
                   signalled>>

Exited ==
    /\ ~Running
    /\ UNCHANGED vars

PollerStep(p) ==
    Tick(p) \/ Collect(p) \/ CollectFails(p) \/ Register(p) \/ PollStops(p)
AggregatorStep == Receive \/ Merge \/ AggregatorStops
ReporterStep ==
    \/ GetMetrics \/ Reset \/ Deliver \/ SendReturns \/ SendFails
    \/ DeliverLate \/ ReporterStops
MainStep == NewReporter \/ NewReporterFails \/ Signal \/ Exit

Next ==
    \/ \E p \in Pollers : PollerStep(p)
    \/ AggregatorStep
    \/ ReporterStep
    \/ MainStep
    \/ Exited

Spec == Init /\ [][Next]_vars

-----------------------------------------------------------------------------
(* Safety *)

Polled == {t \in Polls : t[2] <= rounds[t[1]]}

\* The polls some metric of a queue counts.
InQueue(q) == UNION {q[i].delta : i \in 1..Len(q)}

\* The polls counted by the part of the report the server has not applied.
Unsent == IF PollCount \in toSend THEN heap[report].delta ELSE {}

\* No poll is counted by two metrics of one queue.
Separate(q) ==
    \A i, j \in 1..Len(q) : i # j => q[i].delta \cap q[j].delta = {}

\* No poll is dropped on the way from the counter to the server, or waits in
\* two places at once and so gets counted twice: GetMetrics and Reset are two
\* steps, the aggregator can merge between them, and pollers swap the counter
\* while earlier deltas are still queued (poller_custom.go:37,
\* reporter.go:80-87).
Accounted ==
    Polled = counter \cup InQueue(pending[CustomPoller]) \cup InQueue(ch)
                \cup item.delta \cup heap[store].delta \cup Unsent
                \cup server.delta

CountedOnce ==
    /\ Separate(pending[CustomPoller])
    /\ Separate(ch)
    /\ counter \cap (InQueue(pending[CustomPoller]) \cup InQueue(ch)
          \cup item.delta \cup heap[store].delta \cup Unsent
          \cup server.delta) = {}
    /\ InQueue(pending[CustomPoller]) \cap (InQueue(ch) \cup item.delta
          \cup heap[store].delta \cup Unsent \cup server.delta) = {}
    /\ InQueue(ch) \cap (item.delta \cup heap[store].delta \cup Unsent
          \cup server.delta) = {}
    /\ item.delta \cap (heap[store].delta \cup Unsent \cup server.delta) = {}
    /\ heap[store].delta \cap (Unsent \cup server.delta) = {}
    /\ Unsent \cap server.delta = {}

ExactlyOnce == Accounted /\ CountedOnce

\* While SendMetrics ranges over the reported map no one writes to it: the
\* map was the storage's own, shared with the aggregator and read without its
\* lock, which Go turns into a fatal error (reporter.go:80, memstorage.go:91).
ReportIsPrivate ==
    [][rep = "send" /\ rep' = "send" => heap'[report] = heap[report]]_vars

\* The server never sees an older sample of a gauge after a newer one: the
\* channel, the single aggregator and the reports keep the order of a
\* poller's rounds.
GaugesMoveForward ==
    [][\A g \in Gauges : server'.stamp[g] >= server.stamp[g]]_vars

\* Run reports a clean shutdown only when a signal asked for it: the errors
\* that a failure provokes in the other goroutines do not hide it
\* (agent.go:111-115).
CleanExitWasAskedFor == main = "ok" => signalled

\* To the server the agent is the ledger of its polls: a poll given up with a
\* failed report may still arrive, and nothing is reported after it.
Ledger == INSTANCE TickLedger WITH
              polled <- Polled,
              delivered <- server.delta,
              lost <- IF rep = "done" THEN Unsent ELSE {},
              closed <- rep = "done"
LedgerSpec == Ledger!Spec

\* The reporter's SendMetrics is the one the transports are shown to be: nil
\* means that the whole report was applied, an error ends it for good, and
\* what is left of it may still be applied (reporter.go:91).
Contract == INSTANCE SendContract WITH
                Batches <- Names,
                left <- toSend,
                status <- CASE rep = "send" -> "sending"
                            [] rep = "done" -> "failed"
                            [] OTHER -> "ok"
SendsKeepContract == [][(rep \in {"send", "done"} => Contract!Step)]_vars

-----------------------------------------------------------------------------
(* Liveness *)

\* A goroutine that can run does.  A select whose two cases are ready chooses
\* at random, so the case that is ready again and again is taken: strong
\* fairness for the ctx.Done cases.  SendMetrics returns because every request
\* has a timeout (clientPostTimeout) and a bounded number of attempts.
Fairness ==
    /\ \A p \in Pollers :
          /\ WF_vars(pc[p] = "start" /\ Tick(p))
          /\ WF_vars(Collect(p) \/ CollectFails(p))
          /\ WF_vars(Register(p))
          /\ SF_vars(PollStops(p))
    /\ WF_vars(Receive)
    /\ WF_vars(Merge)
    /\ SF_vars(AggregatorStops)
    /\ WF_vars(GetMetrics)
    /\ WF_vars(Reset)
    /\ WF_vars(Deliver \/ SendReturns \/ SendFails)
    /\ SF_vars(ReporterStops)
    /\ WF_vars(NewReporter \/ NewReporterFails)
    /\ WF_vars(Exit)

FairSpec == Spec /\ Fairness

\* Below, []<>(P => Q) is P ~> Q, since these P stay true.

\* A poll that left the counter reaches the server, unless the agent stops.
PollsReachTheServer ==
    \A t \in Polls :
        []<>(t \in Polled \ counter
                => t \in server.delta \/ cancelled \/ ~Running)

\* After a signal or a failure Run returns; the only thing that can keep it
\* from returning is a poller waiting for room in a channel whose reader has
\* left (poller.go:55 waits on the channel alone).
ShutdownEndsOrBlocks ==
    []<>(cancelled => \/ ~Running
                      \/ /\ agg = "done" /\ Len(ch) = Cap
                         /\ \E p \in Pollers : pc[p] = "send")
=============================================================================
