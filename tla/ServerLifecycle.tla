--------------------------- MODULE ServerLifecycle ---------------------------
(***************************************************************************)
(* The server's Run (internal/server/server.go): its start, the goroutines *)
(* of its errgroup, the requests they serve, the audit goroutines behind   *)
(* them, and the shutdown (internal/router/router.go,                      *)
(* internal/grpcapi/grpc.go, internal/audit).                              *)
(*                                                                         *)
(* A post is an update over HTTP.  A call is one SendMetrics of an agent   *)
(* over gRPC (internal/agent/transport_grpc.go), which has no deadline of  *)
(* its own.  What an update does to the storage is in MemoryStore and      *)
(* DatabaseStore, what a save does to the file in Persistence.             *)
(***************************************************************************)
EXTENDS Naturals, FiniteSets

CONSTANTS
    Posts,    \* updates over HTTP
    Calls,    \* updates over gRPC, each the one call of an agent
    Load      \* bound: how many of them are made

ASSUME RequestConstants == Posts \cap Calls = {}

Requests == Posts \cup Calls

VARIABLES
    database,    \* configuration: a database, or memory and a cacher
    main,        \* where Run is
    result,      \* what it returns
    signalled,   \* a signal arrived
    cancelled,   \* the errgroup's context is done
    firstErr,    \* the errgroup's error
    cacher,      \* Cacher.Run
    http,        \* Router.Run and its listener
    grpc,        \* GRPCAPI.Run and its listener
    elapsed,     \* apiShutdownTimeout is over
    handler,     \* the server's side of a request
    applied,     \* requests the storage has applied: its nil is taken for that
    call,        \* SendMetrics of an agent
    leaving,     \* agents whose context is done
    audit,       \* where LogEvent is with the event of a post
    late         \* events under way whose DefaultTimeout is over

group == <<signalled, cancelled, firstErr>>
listeners == <<cacher, http, grpc, elapsed>>
agents == <<call, leaving>>
audits == <<audit, late>>
vars == <<database, main, result, group, listeners, handler, applied, agents,
          audits>>

TypeOK ==
    /\ database \in BOOLEAN
    /\ main \in {"storage", "router", "grpc", "waiting", "closing", "exited"}
    /\ result \in {"none", "ok", "failed"}
    /\ signalled \in BOOLEAN /\ cancelled \in BOOLEAN
    /\ firstErr \in {"none", "canceled", "failure"}
    /\ cacher \in {"off", "idle", "saving", "done"}
    /\ http \in {"off", "serving", "left", "done"}
    /\ grpc \in {"off", "starting", "serving", "left", "draining", "stopped",
                 "done"}
    /\ elapsed \in BOOLEAN
    /\ handler \in [Requests -> {"none", "accepted", "storage", "applied",
                               "refused", "done"}]
    /\ applied \in SUBSET Requests
    /\ call \in [Calls -> {"idle", "waiting", "ok", "error"}]
    /\ leaving \in SUBSET Calls
    /\ audit \in [Posts -> {"none", "file", "writing", "url", "done"}]
    /\ late \in SUBSET Posts

Init ==
    /\ database \in BOOLEAN
    /\ main = "storage" /\ result = "none"
    /\ signalled = FALSE /\ cancelled = FALSE /\ firstErr = "none"
    /\ cacher = "off" /\ http = "off" /\ grpc = "off" /\ elapsed = FALSE
    /\ handler = [r \in Requests |-> "none"]
    /\ applied = {}
    /\ call = [c \in Calls |-> "idle"] /\ leaving = {}
    /\ audit = [p \in Posts |-> "none"]
    /\ late = {}

\* The process and its goroutines are there.
Running == main # "exited"

-----------------------------------------------------------------------------
(* Run *)

Signal ==
    /\ Running /\ ~signalled
    /\ signalled' = TRUE
    /\ cancelled' = TRUE
    /\ UNCHANGED <<database, main, result, firstErr, listeners, handler,
                   applied, agents, audits>>

\* Mutant: the last error is kept.
ReturnLast(err) ==
    /\ firstErr' = err
    /\ cancelled' = TRUE
    /\ UNCHANGED signalled

\* A goroutine of the errgroup returns an error: the first cancels the others.
Return(err) ==
    /\ firstErr' = IF firstErr = "none" THEN err ELSE firstErr
    /\ cancelled' = TRUE
    /\ UNCHANGED signalled

\* Run returns; the deferred Close of the storage is still to come.
Leave(from, r) ==
    /\ main = from
    /\ main' = "closing"
    /\ result' = r
    /\ UNCHANGED <<database, group, listeners, handler, applied, agents, audits>>

\* The configuration, the database, or the restored file.
StorageFails == Leave("storage", "failed")

StartStorage ==
    /\ main = "storage"
    /\ main' = "router"
    /\ cacher' = IF database THEN "off" ELSE "idle"
    /\ UNCHANGED <<database, result, group, http, grpc, elapsed, handler,
                   applied, agents, audits>>

\* NewRouter: a key or a subnet.  What runs already is not waited for.
RouterFails == Leave("router", "failed")

StartRouter ==
    /\ main = "router"
    /\ main' = "grpc"
    /\ http' = "serving"
    /\ UNCHANGED <<database, result, group, cacher, grpc, elapsed, handler,
                   applied, agents, audits>>

\* NewGRPCAPI; the HTTP server is up by then.
GrpcFails == Leave("grpc", "failed")

StartGrpc ==
    /\ main = "grpc"
    /\ main' = "waiting"
    /\ grpc' = "starting"
    /\ UNCHANGED <<database, result, group, cacher, http, elapsed, handler,
                   applied, agents, audits>>

\* eg.Wait; the group's error is context.Canceled if a signal came first.
WaitReturns ==
    /\ cacher \in {"off", "done"}
    /\ http \in {"left", "done"}
    /\ grpc \in {"left", "stopped", "done"}
    /\ Leave("waiting", IF firstErr = "failure" THEN "failed" ELSE "ok")

InStorage(r) == handler[r] = "storage"

\* repo.Close: the pool of connections waits for those that are in use, the
\* memory storage for nothing.
Close ==
    /\ main = "closing"
    /\ database => \A r \in Requests : ~InStorage(r)
    /\ main' = "exited"
    /\ UNCHANGED <<database, result, group, listeners, handler, applied, agents,
                   audits>>

-----------------------------------------------------------------------------
(* Cacher.Run *)

Save ==
    /\ Running
    /\ cacher = "idle" /\ ~cancelled
    /\ cacher' = "saving"
    /\ UNCHANGED <<database, main, result, group, http, grpc, elapsed, handler,
                   applied, agents, audits>>

SaveEnds ==
    /\ Running
    /\ cacher = "saving"
    /\ \/ cacher' = "idle" /\ UNCHANGED group
       \/ cacher' = "done" /\ Return("failure")
    /\ UNCHANGED <<database, main, result, http, grpc, elapsed, handler, applied,
                   agents, audits>>

CacherStops ==
    /\ Running
    /\ cacher = "idle" /\ cancelled
    /\ cacher' = "done" /\ Return("canceled")
    /\ UNCHANGED <<database, main, result, http, grpc, elapsed, handler, applied,
                   agents, audits>>

-----------------------------------------------------------------------------
(* Router.Run *)

HttpStep(from, to) ==
    /\ Running
    /\ http = from
    /\ http' = to
    /\ UNCHANGED <<database, main, result, cacher, grpc, elapsed, handler,
                   applied, agents, audits>>

\* The address is taken, or accepting fails.  The connections that are there
\* stay, and are served.
HttpFails == HttpStep("serving", "left") /\ Return("failure")

\* A request whose handler has not returned.
Active(r) == handler[r] \in {"accepted", "storage", "applied", "refused"}

\* ctx.Done: the timeout's context comes from the one that is done, so that
\* Shutdown closes the listener and then returns context.Canceled, unless it
\* finds every connection idle.
HttpStops ==
    /\ cancelled
    /\ HttpStep("serving", "done")
    /\ \/ Return("canceled")
       \/ (\A p \in Posts : ~Active(p)) /\ UNCHANGED group

-----------------------------------------------------------------------------
(* GRPCAPI.Run *)

GrpcStep(from, to) ==
    /\ Running
    /\ grpc = from
    /\ grpc' = to
    /\ UNCHANGED <<database, main, result, cacher, http, elapsed, handler,
                   applied, agents, audits>>

GrpcListens == GrpcStep("starting", "serving") /\ UNCHANGED group

GrpcListenFails == GrpcStep("starting", "done") /\ Return("failure")

\* Serve returns; the connections that are there stay, and are served.
GrpcServeFails == GrpcStep("serving", "left") /\ Return("failure")

\* ctx.Done: GracefulStop takes no new calls and waits for those that run.
GrpcDrains ==
    /\ cancelled
    /\ GrpcStep("serving", "draining")
    /\ UNCHANGED group

GrpcDrained ==
    /\ \A c \in Calls : ~Active(c)
    /\ GrpcStep("draining", "done")
    /\ UNCHANGED group

TimeoutElapses ==
    /\ Running
    /\ grpc = "draining" /\ ~elapsed
    /\ elapsed' = TRUE
    /\ UNCHANGED <<database, main, result, group, cacher, http, grpc, handler,
                   applied, agents, audits>>

\* Mutant: the timeout's context comes from the one that is done.
GrpcTimesOutAtOnce == GrpcStep("draining", "stopped") /\ UNCHANGED group

\* Mutant: the end of GracefulStop is waited for.
GrpcTimesOutAndWaits ==
    /\ elapsed
    /\ \A c \in Calls : ~Active(c)
    /\ GrpcStep("draining", "stopped")
    /\ UNCHANGED group

\* Stop closes the connections and cancels the handlers.
GrpcTimesOut ==
    /\ elapsed
    /\ GrpcStep("draining", "stopped")
    /\ UNCHANGED group

-----------------------------------------------------------------------------
(* Requests on the server *)

HandlerStep(r, from, to) ==
    /\ Running
    /\ handler[r] = from
    /\ handler' = [handler EXCEPT ![r] = to]
    /\ UNCHANGED <<database, main, result, group, listeners, leaving>>

\* How many requests have been made.
Made == Cardinality({p \in Posts : handler[p] # "none"})
          + Cardinality({c \in Calls : call[c] # "idle"})

AcceptPost(p) ==
    /\ http = "serving" /\ Made < Load
    /\ HandlerStep(p, "none", "accepted")
    /\ UNCHANGED <<applied, call, audits>>

\* A pool of connections that is being closed gives none out.
PoolIsOpen == database => main # "closing"

\* A middleware or the handler refuses the post, or it goes to the storage.
BeginPost(p) ==
    /\ \/ PoolIsOpen /\ HandlerStep(p, "accepted", "storage")
       \/ HandlerStep(p, "accepted", "done")
    /\ UNCHANGED <<applied, call, audits>>

\* The update is done: the handler starts its audit goroutine and answers.
PostApplied(p) ==
    /\ HandlerStep(p, "storage", "done")
    /\ applied' = applied \cup {p}
    /\ audit' = [audit EXCEPT ![p] = "file"]
    /\ UNCHANGED <<call, late>>

\* The storage returns an error; a database may have committed all the same.
Failed(r) ==
    \/ UNCHANGED applied
    \/ database /\ applied' = applied \cup {r}

\* Mutant: the error is looked at after the audit goroutine is started.
PostFailsLate(p) ==
    /\ HandlerStep(p, "storage", "done")
    /\ Failed(p)
    /\ audit' = [audit EXCEPT ![p] = "file"]
    /\ UNCHANGED <<call, late>>

PostFails(p) ==
    /\ HandlerStep(p, "storage", "done")
    /\ Failed(p)
    /\ UNCHANGED <<call, audits>>

\* The interceptor and UpdateMetrics let a call pass, or refuse it.  It may be
\* one that its agent has given up.
BeginCall(c) ==
    /\ grpc \in {"serving", "left"}
    /\ call[c] # "idle"
    /\ \/ PoolIsOpen /\ HandlerStep(c, "none", "storage")
       \/ HandlerStep(c, "none", "refused")
    /\ UNCHANGED <<applied, call, audits>>

CallApplied(c) ==
    /\ HandlerStep(c, "storage", "applied")
    /\ applied' = applied \cup {c}
    /\ UNCHANGED <<call, audits>>

CallFails(c) ==
    /\ HandlerStep(c, "storage", "refused")
    /\ Failed(c)
    /\ UNCHANGED <<call, audits>>

\* Mutant: the handler's result is passed on as it is.
AnswerCallRaw(c) ==
    /\ \/ HandlerStep(c, "applied", "done")
       \/ HandlerStep(c, "refused", "done")
    /\ IF call[c] = "waiting" /\ grpc # "stopped"
       THEN call' = [call EXCEPT ![c] = handler[c]]
       ELSE UNCHANGED call
    /\ UNCHANGED <<applied, audits>>

\* Mutant: UpdateMetrics answers while the storage is at work.
AnswerCallEarly(c) ==
    /\ HandlerStep(c, "storage", "storage")
    /\ call[c] = "waiting"
    /\ call' = [call EXCEPT ![c] = "ok"]
    /\ UNCHANGED <<applied, audits>>

\* The answer reaches an agent that still waits, over a connection that is open.
AnswerCall(c) ==
    /\ \/ HandlerStep(c, "applied", "done")
       \/ HandlerStep(c, "refused", "done")
    /\ IF call[c] = "waiting" /\ grpc # "stopped"
       THEN call' = [call EXCEPT ![c] = IF handler[c] = "applied" THEN "ok"
                                        ELSE "error"]
       ELSE UNCHANGED call
    /\ UNCHANGED <<applied, audits>>

-----------------------------------------------------------------------------
(* Agents: GRPCTransport.SendMetrics *)

AgentStep(c, from, to) ==
    /\ call[c] = from
    /\ call' = [call EXCEPT ![c] = to]
    /\ UNCHANGED <<database, main, result, group, listeners, handler, applied,
                   leaving, audits>>

SendMetrics(c) == Made < Load /\ AgentStep(c, "idle", "waiting")

\* The server cannot be reached, or the connection breaks.
CallBreaks(c) == AgentStep(c, "waiting", "error")

\* Mutant: the call is made with a context of its own.
CallKeepsOn(c) == main = "exited" /\ AgentStep(c, "waiting", "error")

\* The agent's context is done.
CallCanceled(c) == c \in leaving /\ AgentStep(c, "waiting", "error")

AgentLeaves(c) ==
    /\ call[c] = "waiting" /\ c \notin leaving
    /\ leaving' = leaving \cup {c}
    /\ UNCHANGED <<database, main, result, group, listeners, handler, applied,
                   call, audits>>

-----------------------------------------------------------------------------
(* runAudit and LogEvent: the file, then the URL *)

\* Returning ends the context and its timer.
AuditStep(p, from, to) ==
    /\ Running
    /\ audit[p] = from
    /\ audit' = [audit EXCEPT ![p] = to]
    /\ late' = IF to = "done" THEN late \ {p} ELSE late
    /\ UNCHANGED <<database, main, result, group, listeners, handler, applied,
                   agents>>

\* The file's mutex; then the context, which may have ended meanwhile.
AuditLocks(p) ==
    /\ \A q \in Posts : audit[q] # "writing"
    /\ \/ p \notin late /\ AuditStep(p, "file", "writing")
       \/ p \in late /\ AuditStep(p, "file", "url")

\* Written or not, the next observer has its turn.
AuditWrites(p) == AuditStep(p, "writing", "url")

\* The URL answers, with 200 or not, or cannot be reached.
AuditPosts(p) == AuditStep(p, "url", "done")

AuditGivesUp(p) == p \in late /\ AuditStep(p, "url", "done")

\* Mutant: the timeout covers the file only.
AuditTimesOutAtFile(p) ==
    /\ Running
    /\ audit[p] \in {"file", "writing"} /\ p \notin late
    /\ late' = late \cup {p}
    /\ UNCHANGED <<database, main, result, group, listeners, handler, applied,
                   agents, audit>>

\* One timeout for both observers.
AuditTimesOut(p) ==
    /\ Running
    /\ audit[p] \in {"file", "writing", "url"} /\ p \notin late
    /\ late' = late \cup {p}
    /\ UNCHANGED <<database, main, result, group, listeners, handler, applied,
                   agents, audit>>

Exited == ~Running /\ UNCHANGED vars

RunStep ==
    \/ StorageFails \/ StartStorage \/ RouterFails \/ StartRouter
    \/ GrpcFails \/ StartGrpc \/ WaitReturns \/ Close
CacherStep == Save \/ SaveEnds \/ CacherStops
HttpServerStep == HttpFails \/ HttpStops
GrpcServerStep ==
    \/ GrpcListens \/ GrpcListenFails \/ GrpcServeFails \/ GrpcDrains
    \/ GrpcDrained \/ TimeoutElapses \/ GrpcTimesOut
PostStep(p) ==
    \/ AcceptPost(p) \/ BeginPost(p) \/ PostApplied(p) \/ PostFails(p)
    \/ AuditLocks(p) \/ AuditWrites(p) \/ AuditPosts(p) \/ AuditGivesUp(p)
    \/ AuditTimesOut(p)
CallStep(c) ==
    \/ SendMetrics(c) \/ CallBreaks(c) \/ CallCanceled(c) \/ AgentLeaves(c)
    \/ BeginCall(c) \/ CallApplied(c) \/ CallFails(c) \/ AnswerCall(c)

Next ==
    \/ Signal \/ RunStep \/ CacherStep \/ HttpServerStep \/ GrpcServerStep
    \/ \E p \in Posts : PostStep(p)
    \/ \E c \in Calls : CallStep(c)
    \/ Exited

Spec == Init /\ [][Next]_vars

-----------------------------------------------------------------------------
(* Properties *)

\* Run reports a clean shutdown only when a signal asked for it, although every
\* failure makes the other goroutines return context.Canceled (server.go:175).
CleanExitWasAskedFor == result = "ok" => signalled

\* A shutdown leaves no call over gRPC unanswered unless the five seconds for
\* it are over, or its listener failed before (grpc.go:90-110).
CallsDrained ==
    [][main = "waiting" /\ main' = "closing" =>
          \A c \in Calls : Active(c) => elapsed \/ grpc = "left"]_vars

\* To its agent a call is a report of one batch: nil means that it was applied,
\* an error that it may have been, or may still be (transport_grpc.go:104).
Contract(c) ==
    INSTANCE SendContract WITH
        Batches <- {c},
        left <- {c} \ applied,
        status <- CASE call[c] = "ok" -> "ok"
                    [] call[c] = "error" -> "failed"
                    [] OTHER -> "sending"
ContractSpec ==
    /\ \A c \in Calls : Contract(c)!Init
    /\ [][\A c \in Calls : Contract(c)!Step]_vars

\* The audit log is of updates that happened: no observer gets an event whose
\* update the storage has not applied, to go by what it returned
\* (router.go:505).
AuditedWasApplied == \A p \in Posts : audit[p] # "none" => p \in applied

\* "apiShutdownTimeout defines the timeout for graceful shutdown of the API
\* server" (router.go:29): before it is over, a clean shutdown does not cut
\* off an update, unless the listener failed before.
PostsDrained ==
    main = "exited" /\ result = "ok" /\ ~elapsed /\ http = "done" =>
        \A p \in Posts : ~InStorage(p)

-----------------------------------------------------------------------------
(* Liveness *)

\* Goroutines that can run do, a save ends, and timers fire.  Nothing is
\* assumed of storages, of the URL, of signals and of failures; but a handler
\* whose context Stop has cancelled leaves the storage, and an agent notices
\* that its connection was closed.
StoppedCall(c) ==
    /\ grpc = "stopped"
    /\ CallApplied(c) \/ CallFails(c)
ClosedCall(c) == (grpc = "stopped" \/ ~Running) /\ CallBreaks(c)

Fairness ==
    /\ WF_vars(StorageFails \/ StartStorage)
    /\ WF_vars(RouterFails \/ StartRouter)
    /\ WF_vars(GrpcFails \/ StartGrpc)
    /\ WF_vars(WaitReturns)
    /\ WF_vars(Close)
    /\ WF_vars(SaveEnds)
    /\ WF_vars(CacherStops)
    /\ WF_vars(HttpStops)
    /\ WF_vars(GrpcListens \/ GrpcListenFails)
    /\ WF_vars(GrpcDrains)
    /\ WF_vars(GrpcDrained \/ GrpcTimesOut)
    /\ WF_vars(TimeoutElapses)
    /\ \A c \in Calls :
          /\ WF_vars(StoppedCall(c))
          /\ WF_vars(ClosedCall(c))
          /\ WF_vars(CallCanceled(c))
    /\ \A p \in Posts :
          /\ SF_vars(AuditLocks(p))
          /\ WF_vars(AuditWrites(p))
          /\ WF_vars(AuditGivesUp(p))
          /\ WF_vars(AuditTimesOut(p))

FairSpec == Spec /\ Fairness

\* After a signal or a failure the process ends, unless the pool of database
\* connections waits for a request that nobody cancels: a post, or a call on a
\* connection that outlived its listener (server.go:63, postgresql.go:235).
ShutdownEndsOrWaits ==
    (cancelled \/ main = "closing") ~>
        \/ main = "exited"
        \/ /\ main = "closing" /\ database
           /\ \E r \in Requests : InStorage(r) /\ (r \in Calls => grpc = "left")

\* A call has no deadline; what ends it in any case is that its agent is
\* stopped, or the server is (transport_grpc.go:103).
CallsEndAtShutdown ==
    \A c \in Calls :
        (call[c] = "waiting" /\ (c \in leaving \/ ~Running))
            ~> call[c] # "waiting"

\* An audit goroutine ends while the server runs, also when the URL never
\* answers (router.go:512).
AuditsEnd ==
    \A p \in Posts : audit[p] # "none" ~> (audit[p] = "done" \/ ~Running)
=============================================================================
