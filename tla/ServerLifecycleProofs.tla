------------------------ MODULE ServerLifecycleProofs ------------------------
(* Theorems about ServerLifecycle, for any requests. *)
EXTENDS ServerLifecycle, TLAPS

-----------------------------------------------------------------------------
(* Types *)

\* The steps of Run and of the goroutines of its errgroup.
GroupStep ==
    Signal \/ RunStep \/ CacherStep \/ HttpServerStep \/ GrpcServerStep

\* They leave the requests alone, and keep the types.
LEMMA GroupTypes ==
    ASSUME TypeOK, GroupStep
    PROVE  TypeOK' /\ UNCHANGED <<database, handler, applied, agents, audits>>
<1> USE DEF TypeOK, group, listeners, agents, audits
<1>1. CASE Signal
  BY <1>1 DEF Signal
<1>2. CASE RunStep
  <2>1. CASE StorageFails \/ RouterFails \/ GrpcFails \/ WaitReturns
    BY <2>1 DEF StorageFails, RouterFails, GrpcFails, WaitReturns, Leave
  <2>2. CASE StartStorage
    BY <2>2 DEF StartStorage
  <2>3. CASE StartRouter
    BY <2>3 DEF StartRouter
  <2>4. CASE StartGrpc
    BY <2>4 DEF StartGrpc
  <2>5. CASE Close
    BY <2>5 DEF Close
  <2>6. QED
    BY <1>2, <2>1, <2>2, <2>3, <2>4, <2>5 DEF RunStep
<1>3. ASSUME NEW err \in {"canceled", "failure"}, Return(err)
      PROVE  /\ signalled' \in BOOLEAN /\ cancelled' \in BOOLEAN
             /\ firstErr' \in {"none", "canceled", "failure"}
  BY <1>3 DEF Return
<1>4. CASE CacherStep
  <2>1. CASE Save
    BY <2>1 DEF Save
  <2>2. CASE SaveEnds
    <3>1. \/ cacher' = "idle" /\ UNCHANGED group
          \/ cacher' = "done" /\ Return("failure")
      BY <2>2 DEF SaveEnds
    <3>2. QED
      BY <2>2, <3>1, <1>3 DEF SaveEnds
  <2>3. CASE CacherStops
    BY <2>3, <1>3 DEF CacherStops
  <2>4. QED
    BY <1>4, <2>1, <2>2, <2>3 DEF CacherStep
<1>5. CASE HttpServerStep
  <2>1. ASSUME NEW to \in {"left", "done"}, HttpStep("serving", to),
               (\E err \in {"canceled", "failure"} : Return(err)) \/ UNCHANGED group
        PROVE  TypeOK' /\ UNCHANGED <<database, handler, applied, agents, audits>>
    BY <2>1, <1>3 DEF HttpStep
  <2>2. QED
    BY <1>5, <2>1 DEF HttpServerStep, HttpFails, HttpStops
<1>6. CASE GrpcServerStep
  <2>1. ASSUME NEW from, NEW to \in {"serving", "left", "draining", "stopped", "done"},
               GrpcStep(from, to), Return("failure") \/ UNCHANGED group
        PROVE  TypeOK' /\ UNCHANGED <<database, handler, applied, agents, audits>>
    BY <2>1, <1>3 DEF GrpcStep
  <2>2. CASE TimeoutElapses
    BY <2>2 DEF TimeoutElapses
  <2>3. QED
    BY <1>6, <2>1, <2>2
    DEF GrpcServerStep, GrpcListens, GrpcListenFails, GrpcServeFails,
        GrpcDrains, GrpcDrained, GrpcTimesOut
<1>7. QED
  BY <1>1, <1>2, <1>4, <1>5, <1>6 DEF GroupStep

\* The steps of a post leave everything but its handler and its audit alone.
LEMMA PostTypes ==
    ASSUME TypeOK, NEW p \in Posts, PostStep(p)
    PROVE  /\ TypeOK'
           /\ UNCHANGED <<database, main, result, group, listeners, agents>>
           /\ \A r \in Requests \ {p} : handler'[r] = handler[r]
           /\ applied \subseteq applied' /\ applied' \subseteq applied \cup {p}
<1> USE DEF TypeOK, group, listeners, agents, audits
<1>1. p \in Requests
  BY DEF Requests
<1>2. CASE AcceptPost(p) \/ BeginPost(p)
  BY <1>1, <1>2 DEF AcceptPost, BeginPost, HandlerStep
<1>3. CASE PostApplied(p) \/ PostFails(p)
  BY <1>1, <1>3 DEF PostApplied, PostFails, Failed, HandlerStep
<1>4. CASE AuditLocks(p)
  BY <1>4 DEF AuditLocks, AuditStep
<1>5. CASE AuditWrites(p) \/ AuditPosts(p) \/ AuditGivesUp(p)
  BY <1>5 DEF AuditWrites, AuditPosts, AuditGivesUp, AuditStep
<1>6. CASE AuditTimesOut(p)
  BY <1>6 DEF AuditTimesOut
<1>7. QED
  BY <1>2, <1>3, <1>4, <1>5, <1>6 DEF PostStep

\* The steps of a call leave everything but its two sides alone.
LEMMA CallTypes ==
    ASSUME TypeOK, NEW c \in Calls, CallStep(c)
    PROVE  /\ TypeOK'
           /\ UNCHANGED <<database, main, result, group, listeners, audits>>
           /\ \A r \in Requests \ {c} : handler'[r] = handler[r]
           /\ \A d \in Calls \ {c} : call'[d] = call[d]
           /\ applied \subseteq applied' /\ applied' \subseteq applied \cup {c}
<1> USE DEF TypeOK, group, listeners, agents, audits
<1>1. c \in Requests
  BY DEF Requests
<1>2. CASE SendMetrics(c) \/ CallBreaks(c) \/ CallCanceled(c)
  BY <1>2 DEF SendMetrics, CallBreaks, CallCanceled, AgentStep
<1>3. CASE AgentLeaves(c)
  BY <1>3 DEF AgentLeaves
<1>4. CASE BeginCall(c)
  BY <1>1, <1>4 DEF BeginCall, HandlerStep
<1>5. CASE CallApplied(c) \/ CallFails(c)
  BY <1>1, <1>5 DEF CallApplied, CallFails, Failed, HandlerStep
<1>6. CASE AnswerCall(c)
  BY <1>1, <1>6 DEF AnswerCall, HandlerStep
<1>7. QED
  BY <1>2, <1>3, <1>4, <1>5, <1>6 DEF CallStep

\* Every step is one of these.
LEMMA Steps ==
    [Next]_vars => \/ GroupStep
                   \/ \E p \in Posts : PostStep(p)
                   \/ \E c \in Calls : CallStep(c)
                   \/ UNCHANGED vars
BY DEF Next, GroupStep, Exited

\* The server and its agents have no state that TypeOK does not list (TypeOK).
THEOREM ServerTypes == Spec => []TypeOK
<1>1. Init => TypeOK
  BY DEF Init, TypeOK
<1>2. TypeOK /\ [Next]_vars => TypeOK'
  <2> SUFFICES ASSUME TypeOK, [Next]_vars PROVE TypeOK'
    OBVIOUS
  <2>1. CASE UNCHANGED vars
    BY <2>1 DEF vars, TypeOK, group, listeners, agents, audits
  <2>2. QED
    BY <2>1, Steps, GroupTypes, PostTypes, CallTypes
<1>3. QED
  BY <1>1, <1>2, PTL DEF Spec
-----------------------------------------------------------------------------
(* The end of Run *)

\* Where context.Canceled comes from: a listener that stopped was told to, or
\* told the others, and who is told was told by a signal or by an error.
Cancellation ==
    /\ http \in {"left", "done"} => cancelled
    /\ cancelled => signalled \/ firstErr # "none"
    /\ firstErr = "canceled" => signalled
    /\ result = "ok" => signalled

\* Cancellation is inductive.
LEMMA NextCancellation ==
    TypeOK /\ Cancellation /\ [Next]_vars => Cancellation'
<1> SUFFICES ASSUME TypeOK, Cancellation, [Next]_vars PROVE Cancellation'
  OBVIOUS
<1> USE DEF Cancellation
<1>1. CASE UNCHANGED <<result, signalled, cancelled, firstErr, http>>
  BY <1>1
<1>2. CASE Signal
  BY <1>2 DEF Signal, listeners
<1>3. CASE RunStep
  <2>1. CASE StorageFails \/ RouterFails \/ GrpcFails
    BY <2>1 DEF StorageFails, RouterFails, GrpcFails, Leave, group, listeners
  <2>2. CASE WaitReturns
    BY <2>2 DEF WaitReturns, Leave, TypeOK, group, listeners
  <2>3. CASE StartRouter
    BY <2>3 DEF StartRouter, group
  <2>4. CASE StartStorage \/ StartGrpc \/ Close
    BY <2>4 DEF StartStorage, StartGrpc, Close, group, listeners
  <2>5. QED
    BY <1>3, <2>1, <2>2, <2>3, <2>4 DEF RunStep
<1>4. CASE CacherStep
  BY <1>4 DEF CacherStep, Save, SaveEnds, CacherStops, Return, TypeOK, group
<1>5. CASE HttpServerStep
  BY <1>5 DEF HttpServerStep, HttpFails, HttpStops, HttpStep, Return, TypeOK, group
<1>6. CASE GrpcServerStep
  <2>1. CASE TimeoutElapses
    BY <2>1 DEF TimeoutElapses, group
  <2>2. ASSUME NEW from, NEW to, GrpcStep(from, to),
               Return("failure") \/ UNCHANGED group
        PROVE  Cancellation'
    BY <2>2 DEF GrpcStep, Return, TypeOK, group
  <2>3. QED
    BY <1>6, <2>1, <2>2
    DEF GrpcServerStep, GrpcListens, GrpcListenFails, GrpcServeFails,
        GrpcDrains, GrpcDrained, GrpcTimesOut
<1>7. ASSUME NEW p \in Posts, PostStep(p) PROVE Cancellation'
  BY <1>1, <1>7, PostTypes DEF group, listeners
<1>8. ASSUME NEW c \in Calls, CallStep(c) PROVE Cancellation'
  BY <1>1, <1>8, CallTypes DEF group, listeners
<1>9. CASE UNCHANGED vars
  BY <1>1, <1>9 DEF vars, group, listeners
<1>10. QED
  BY <1>2, <1>3, <1>4, <1>5, <1>6, <1>7, <1>8, <1>9, Steps DEF GroupStep

\* Run reports a clean shutdown only when a signal asked for it: the error
\* that cancels the others is not taken for their context.Canceled
\* (CleanExitWasAskedFor).
THEOREM CleanExitTheorem == Spec => []CleanExitWasAskedFor
<1>1. Init => Cancellation
  BY DEF Init, Cancellation
<1>2. Cancellation => CleanExitWasAskedFor
  BY DEF Cancellation, CleanExitWasAskedFor
<1>3. QED
  BY <1>1, <1>2, NextCancellation, ServerTypes, PTL DEF Spec

-----------------------------------------------------------------------------
(* The calls over gRPC *)

\* Stop comes after the timeout, and a server that is not there or has drained
\* serves no call.
Draining ==
    /\ main \in {"storage", "router", "grpc"} => grpc = "off"
    /\ grpc = "stopped" => elapsed
    /\ grpc \in {"off", "starting", "done"} => \A c \in Calls : ~Active(c)

\* Draining is inductive.
LEMMA NextDraining == TypeOK /\ Draining /\ [Next]_vars => Draining'
<1> SUFFICES ASSUME TypeOK, Draining, [Next]_vars PROVE Draining'
  OBVIOUS
<1> USE DEF Draining
<1>1. CASE UNCHANGED <<main, grpc, elapsed, handler>>
  BY <1>1 DEF Active
<1>2. CASE Signal \/ CacherStep \/ HttpServerStep
  BY <1>1, <1>2 DEF Signal, CacherStep, Save, SaveEnds, CacherStops,
     HttpServerStep, HttpFails, HttpStops, HttpStep, listeners
<1>3. CASE RunStep
  <2>1. CASE StartGrpc
    <3>1. UNCHANGED <<elapsed, handler>> /\ grpc = "off" /\ grpc' = "starting"
          /\ main' = "waiting"
      BY <2>1 DEF StartGrpc
    <3>2. QED
      BY <3>1 DEF Active
  <2>2. CASE ~StartGrpc
    <3>1. UNCHANGED <<grpc, elapsed, handler>>
      BY <1>3, <2>2 DEF RunStep, StorageFails, RouterFails, GrpcFails,
         WaitReturns, Leave, StartStorage, StartRouter, Close, listeners
    <3>2. main' \in {"storage", "router", "grpc"}
            => main \in {"storage", "router", "grpc"}
      BY <1>3, <2>2 DEF RunStep, StorageFails, RouterFails, GrpcFails,
         WaitReturns, Leave, StartStorage, StartRouter, Close
    <3>3. QED
      BY <3>1, <3>2 DEF Active
  <2>3. QED
    BY <2>1, <2>2
<1>4. CASE GrpcServerStep
  <2>1. UNCHANGED handler
    BY <1>4, GroupTypes DEF GroupStep
  <2>2. CASE TimeoutElapses
    BY <2>1, <2>2 DEF TimeoutElapses, Active
  <2>3. CASE GrpcListens \/ GrpcServeFails \/ GrpcDrains \/ GrpcTimesOut
    BY <2>1, <2>3 DEF GrpcListens, GrpcServeFails, GrpcDrains, GrpcTimesOut,
       GrpcStep
  <2>4. CASE GrpcListenFails \/ GrpcDrained
    BY <2>1, <2>4 DEF GrpcListenFails, GrpcDrained, GrpcStep, Active
  <2>5. QED
    BY <1>4, <2>2, <2>3, <2>4 DEF GrpcServerStep
<1>5. ASSUME NEW p \in Posts, PostStep(p) PROVE Draining'
  <2>1. UNCHANGED <<main, listeners>> /\ \A c \in Calls : handler'[c] = handler[c]
    BY <1>5, PostTypes, RequestConstants DEF Requests
  <2>2. QED
    BY <2>1 DEF listeners, Active
<1>6. ASSUME NEW c \in Calls, CallStep(c) PROVE Draining'
  <2>1. /\ UNCHANGED <<main, listeners>>
        /\ \A d \in Calls \ {c} : handler'[d] = handler[d]
    BY <1>6, CallTypes DEF Requests
  <2>2. CASE BeginCall(c)
    BY <2>1, <2>2 DEF BeginCall, listeners
  <2>3. CASE ~BeginCall(c)
    <3>1. Active(c)' => Active(c)
      <4>1. CASE SendMetrics(c) \/ CallBreaks(c) \/ CallCanceled(c) \/ AgentLeaves(c)
        BY <4>1 DEF SendMetrics, CallBreaks, CallCanceled, AgentLeaves,
           AgentStep, Active
      <4>2. CASE CallApplied(c) \/ CallFails(c) \/ AnswerCall(c)
        BY <4>2 DEF CallApplied, CallFails, AnswerCall, HandlerStep, Active,
           TypeOK, Requests
      <4>3. QED
        BY <1>6, <2>3, <4>1, <4>2 DEF CallStep
    <3>2. QED
      BY <2>1, <3>1 DEF listeners, Active
  <2>4. QED
    BY <2>2, <2>3
<1>7. CASE UNCHANGED vars
  BY <1>1, <1>7 DEF vars, listeners
<1>8. QED
  BY <1>2, <1>3, <1>4, <1>5, <1>6, <1>7, Steps DEF GroupStep

\* A shutdown leaves no call unanswered before the timeout is over, unless
\* the listener failed (CallsDrained).
THEOREM CallsDrainedTheorem == Spec => CallsDrained
<1>1. Init => Draining
  BY DEF Init, Draining, Active, Requests
<1>2. TypeOK /\ Draining /\ [Next]_vars =>
        [main = "waiting" /\ main' = "closing" =>
            \A c \in Calls : Active(c) => elapsed \/ grpc = "left"]_vars
  <2> SUFFICES ASSUME TypeOK, Draining, [Next]_vars,
                      main = "waiting", main' = "closing"
               PROVE  \A c \in Calls : Active(c) => elapsed \/ grpc = "left"
    OBVIOUS
  <2>1. CASE WaitReturns
    BY <2>1 DEF WaitReturns, Draining
  <2>2. CASE RunStep /\ ~WaitReturns
    BY <2>2 DEF RunStep, StorageFails, RouterFails, GrpcFails, Leave,
       StartStorage, StartRouter, StartGrpc, Close
  <2>3. CASE Signal \/ CacherStep \/ HttpServerStep \/ GrpcServerStep
    BY <2>3 DEF Signal, CacherStep, Save, SaveEnds, CacherStops,
       HttpServerStep, HttpFails, HttpStops, HttpStep, GrpcServerStep,
       GrpcListens, GrpcListenFails, GrpcServeFails, GrpcDrains, GrpcDrained,
       TimeoutElapses, GrpcTimesOut, GrpcStep
  <2>4. CASE UNCHANGED vars
    BY <2>4 DEF vars
  <2>5. QED
    BY <2>1, <2>2, <2>3, <2>4, PostTypes, CallTypes, Steps DEF GroupStep
<1>3. QED
  BY <1>1, <1>2, NextDraining, ServerTypes, PTL DEF Spec, CallsDrained

-----------------------------------------------------------------------------
(* What was applied *)

\* An audit, a handler and an agent speak only of updates that were applied.
Truthful ==
    /\ AuditedWasApplied
    /\ \A c \in Calls : handler[c] = "applied" => c \in applied
    /\ \A c \in Calls : call[c] = "ok" => c \in applied

\* Truthful is inductive.
LEMMA NextTruthful == TypeOK /\ Truthful /\ [Next]_vars => Truthful'
<1> SUFFICES ASSUME TypeOK, Truthful, [Next]_vars PROVE Truthful'
  OBVIOUS
<1> USE DEF Truthful, AuditedWasApplied
<1>1. CASE GroupStep
  BY <1>1, GroupTypes DEF agents, audits
<1>2. ASSUME NEW p \in Posts, PostStep(p) PROVE Truthful'
  <2>1. /\ UNCHANGED call /\ applied \subseteq applied'
        /\ \A c \in Calls : handler'[c] = handler[c]
    BY <1>2, PostTypes, RequestConstants DEF agents, Requests
  <2>2. \A q \in Posts : audit'[q] # "none" => audit[q] # "none" \/ q \in applied'
    <3>1. CASE AcceptPost(p) \/ BeginPost(p) \/ PostFails(p) \/ AuditTimesOut(p)
      BY <3>1 DEF AcceptPost, BeginPost, PostFails, AuditTimesOut, audits
    <3>2. CASE PostApplied(p)
      BY <3>2 DEF PostApplied, TypeOK
    <3>3. ASSUME NEW from, NEW to, from # "none", AuditStep(p, from, to)
          PROVE  \A q \in Posts : audit'[q] # "none" => audit[q] # "none"
      BY <3>3 DEF AuditStep, TypeOK
    <3>4. CASE AuditLocks(p) \/ AuditWrites(p) \/ AuditPosts(p) \/ AuditGivesUp(p)
      BY <3>3, <3>4 DEF AuditLocks, AuditWrites, AuditPosts, AuditGivesUp
    <3>5. QED
      BY <1>2, <3>1, <3>2, <3>4 DEF PostStep
  <2>3. QED
    BY <2>1, <2>2
<1>3. ASSUME NEW c \in Calls, CallStep(c) PROVE Truthful'
  <2>1. /\ UNCHANGED audits /\ applied \subseteq applied'
        /\ \A d \in Calls \ {c} : handler'[d] = handler[d] /\ call'[d] = call[d]
    BY <1>3, CallTypes DEF Requests
  <2>2. /\ handler'[c] = "applied" => c \in applied'
        /\ call'[c] = "ok" => c \in applied'
    <3>1. CASE SendMetrics(c) \/ CallBreaks(c) \/ CallCanceled(c)
      BY <3>1 DEF SendMetrics, CallBreaks, CallCanceled, AgentStep, TypeOK
    <3>2. CASE AgentLeaves(c)
      BY <3>2 DEF AgentLeaves
    <3>3. CASE BeginCall(c)
      BY <3>3 DEF BeginCall, HandlerStep, TypeOK, Requests
    <3>4. CASE CallApplied(c)
      BY <3>4 DEF CallApplied
    <3>5. CASE CallFails(c)
      BY <2>1, <3>5 DEF CallFails, HandlerStep, TypeOK, Requests
    <3>6. CASE AnswerCall(c)
      <4>1. handler'[c] = "done"
        BY <3>6 DEF AnswerCall, HandlerStep, TypeOK, Requests
      <4>2. call'[c] = "ok" => call[c] = "ok" \/ handler[c] = "applied"
        BY <3>6 DEF AnswerCall, TypeOK
      <4>3. QED
        BY <2>1, <4>1, <4>2
    <3>7. QED
      BY <1>3, <3>1, <3>2, <3>3, <3>4, <3>5, <3>6 DEF CallStep
  <2>3. QED
    BY <2>1, <2>2 DEF audits
<1>4. CASE UNCHANGED vars
  BY <1>4 DEF vars, agents, audits
<1>5. QED
  BY <1>1, <1>2, <1>3, <1>4, Steps

\* Truthful holds in every reachable state.
LEMMA ServerIsTruthful == Spec => []Truthful
<1>1. Init => Truthful
  BY DEF Init, Truthful, AuditedWasApplied, Requests
<1>2. QED
  BY <1>1, NextTruthful, ServerTypes, PTL DEF Spec

\* No observer gets an event of an update that the storage has not applied
\* (AuditedWasApplied).
THEOREM AuditedWasAppliedTheorem == Spec => []AuditedWasApplied
<1>1. Truthful => AuditedWasApplied
  BY DEF Truthful
<1>2. QED
  BY <1>1, ServerIsTruthful, PTL

\* Every step of the server is one of the contract of each call, or silent.
LEMMA StepKeepsContract ==
    ASSUME TypeOK, Truthful, [Next]_vars, NEW c \in Calls
    PROVE  Contract(c)!Step
<1> USE DEF Contract!Step, Contract!Next, Contract!Deliver, Contract!Succeed,
            Contract!Fail
<1>1. CASE UNCHANGED <<applied, call>>
  BY <1>1
<1>2. ASSUME UNCHANGED call, applied' \in {applied, applied \cup {c}}
      PROVE  Contract(c)!Step
  <2>1. CASE c \in applied \/ c \notin applied'
    BY <1>2, <2>1
  <2>2. CASE c \notin applied /\ c \in applied'
    BY <1>2, <2>2
  <2>3. QED
    BY <2>1, <2>2
<1>3. ASSUME NEW r \in Requests \ {c}, applied \subseteq applied',
             applied' \subseteq applied \cup {r}, call'[c] = call[c]
      PROVE  Contract(c)!Step
  <2>1. {c} \ applied' = {c} \ applied
    BY <1>3
  <2>2. QED
    BY <1>3, <2>1
<1>4. CASE GroupStep
  BY <1>1, <1>4, GroupTypes DEF agents
<1>5. ASSUME NEW p \in Posts, PostStep(p) PROVE Contract(c)!Step
  <2>1. p \in Requests \ {c}
    BY RequestConstants DEF Requests
  <2>2. QED
    BY <1>3, <1>5, <2>1, PostTypes DEF agents
<1>6. ASSUME NEW d \in Calls \ {c}, CallStep(d) PROVE Contract(c)!Step
  BY <1>3, <1>6, CallTypes DEF Requests
<1>7. CASE CallStep(c)
  <2>1. CASE SendMetrics(c) \/ CallBreaks(c) \/ CallCanceled(c)
    BY <2>1 DEF SendMetrics, CallBreaks, CallCanceled, AgentStep, TypeOK
  <2>2. CASE AgentLeaves(c)
    BY <1>1, <2>2 DEF AgentLeaves
  <2>3. CASE BeginCall(c)
    BY <1>1, <2>3 DEF BeginCall
  <2>4. CASE CallApplied(c) \/ CallFails(c)
    BY <1>2, <2>4 DEF CallApplied, CallFails, Failed
  <2>5. CASE AnswerCall(c)
    <3>1. UNCHANGED applied
      BY <2>5 DEF AnswerCall
    <3>2. \/ UNCHANGED call
          \/ call[c] = "waiting" /\ call'[c] = "error"
          \/ call[c] = "waiting" /\ call'[c] = "ok" /\ c \in applied
      BY <2>5 DEF AnswerCall, Truthful, TypeOK
    <3>3. QED
      BY <3>1, <3>2
  <2>6. QED
    BY <1>7, <2>1, <2>2, <2>3, <2>4, <2>5 DEF CallStep
<1>8. CASE UNCHANGED vars
  BY <1>1, <1>8 DEF vars, agents
<1>9. QED
  BY <1>4, <1>5, <1>6, <1>7, <1>8, Steps

\* To its agent a call over gRPC keeps the contract that one over HTTP keeps:
\* nil only for a batch that was applied (ContractSpec).
THEOREM CallsKeepContract == Spec => ContractSpec
<1>1. Init => \A c \in Calls : Contract(c)!Init
  BY DEF Init, Contract!Init
<1>2. TypeOK /\ Truthful /\ [Next]_vars => [\A c \in Calls : Contract(c)!Step]_vars
  BY StepKeepsContract
<1>3. QED
  BY <1>1, <1>2, ServerTypes, ServerIsTruthful, PTL DEF Spec, ContractSpec

-----------------------------------------------------------------------------
(* Requests that are in the storage when the process ends *)

\* Once the process is gone no handler runs.
LEMMA NextPoolDrained ==
    LET Drained == main = "exited" /\ database =>
                       \A r \in Requests : ~InStorage(r)
    IN  TypeOK /\ Drained /\ [Next]_vars => Drained'
<1> DEFINE Drained == main = "exited" /\ database =>
                          \A r \in Requests : ~InStorage(r)
<1> SUFFICES ASSUME TypeOK, Drained, [Next]_vars PROVE Drained'
  OBVIOUS
<1>1. CASE UNCHANGED <<database, main, handler>>
  BY <1>1 DEF InStorage
<1>2. CASE GroupStep
  <2>1. UNCHANGED <<database, handler>>
    BY <1>2, GroupTypes
  <2>2. main' = "exited" => main = "exited" \/ Close
    BY <1>2 DEF GroupStep, Signal, RunStep, StorageFails, RouterFails,
       GrpcFails, WaitReturns, Leave, StartStorage, StartRouter, StartGrpc,
       CacherStep, Save, SaveEnds, CacherStops, HttpServerStep, HttpFails,
       HttpStops, HttpStep, GrpcServerStep, GrpcListens, GrpcListenFails,
       GrpcServeFails, GrpcDrains, GrpcDrained, TimeoutElapses, GrpcTimesOut,
       GrpcStep
  <2>3. Close => (database => \A r \in Requests : ~InStorage(r))
    BY DEF Close
  <2>4. QED
    BY <2>1, <2>2, <2>3 DEF InStorage
<1>3. ASSUME NEW p \in Posts, PostStep(p) PROVE Drained'
  <2>1. UNCHANGED <<database, main>>
    BY <1>3, PostTypes
  <2>2. UNCHANGED handler \/ Running
    BY <1>3 DEF PostStep, AcceptPost, BeginPost, PostApplied, PostFails,
       HandlerStep, AuditLocks, AuditWrites, AuditPosts, AuditGivesUp,
       AuditTimesOut, AuditStep
  <2>3. QED
    BY <1>1, <2>1, <2>2 DEF Running
<1>4. ASSUME NEW c \in Calls, CallStep(c) PROVE Drained'
  <2>1. UNCHANGED <<database, main>>
    BY <1>4, CallTypes
  <2>2. UNCHANGED handler \/ Running
    BY <1>4 DEF CallStep, SendMetrics, CallBreaks, CallCanceled, AgentStep,
       AgentLeaves, BeginCall, CallApplied, CallFails, AnswerCall, HandlerStep
  <2>3. QED
    BY <1>1, <2>1, <2>2 DEF Running
<1>5. CASE UNCHANGED vars
  BY <1>1, <1>5 DEF vars
<1>6. QED
  BY <1>2, <1>3, <1>4, <1>5, Steps

\* The extent of the finding about shutdowns: with a database no update is cut
\* off, since the pool's Close waits for it, though Shutdown did not
\* (PostsDrained; postgresql.go:235, server.go:63).
THEOREM PoolDrainsPosts == Spec => [](database => PostsDrained)
<1> DEFINE Drained == main = "exited" /\ database =>
                          \A r \in Requests : ~InStorage(r)
           Goal == database => PostsDrained
<1>1. Init => Drained
  BY DEF Init
<1>2. Drained => Goal
  BY DEF PostsDrained, Requests
<1>3. TypeOK /\ Drained /\ [Next]_vars => Drained'
  BY NextPoolDrained
<1> HIDE DEF Drained, Goal
<1>4. Spec => []Goal
  BY <1>1, <1>2, <1>3, ServerTypes, PTL DEF Spec
<1>5. QED
  BY <1>4 DEF Goal
=============================================================================
