# Formal models of the metrics agent and server

The repository holds a metrics **agent**, which samples runtime, memory and CPU
figures and reports them, and a **server**, which accumulates them in memory
(with a backup file) or in PostgreSQL and serves them over HTTP and gRPC. This
directory holds TLA+ models of their concurrent core, TLC configurations that
check them on small instances, and proofs that TLAPS checks.

## 1. Inventory

### The agent (`internal/agent`, `internal/storage/memstorage`)

| part | state | operations | interacts through |
|---|---|---|---|
| pollers (`poller*.go`) | the global atomic `counter`, a ticker each | `Poll`, `PollOnce`, `registerMetric` | `pollCh`, a channel of 1024 |
| aggregator (`aggregator.go`) | the metric in its hands | `RunAggregator` (`merge`) | `pollCh`, the storage |
| memory storage | `Metrics`, a map of pointers, and a lock | `SetOrUpdateMetric`, `GetMetrics`, `Reset` | the lock; `GetMetrics` leaks the live map |
| reporter (`reporter.go`) | the map it took | `RunReporter`, one tick: get, reset, send | the storage, the transport |
| transports (`transport_*.go`) | batches, workers, attempts | `SendMetrics` | HTTP, gRPC |
| `Run` (`agent.go`) | errgroup, signal context | start, wait, return | the errgroup's context |

Hard: the reporter takes the storage's map while the aggregator runs; the
counter is swapped out while earlier deltas are still queued; a failing send
stops everything; pollers wait on the channel alone; late answers.
Correct means: every poll is counted exactly once, no map is written while it
is read, newer samples are not overwritten by older ones, shutdown ends, and a
failure is not reported as a clean exit.

### The server (`internal/server`, `router`, `grpcapi`, `storage`, `cacher`, `audit`)

| part | state | operations |
|---|---|---|
| memory storage | map, lock | get, set, batch, `GetMetrics`, `Initialize` |
| cacher (`cacher.go`) | ticker, backup file | `Restore`, `saveMetrics`, `runPeriodically` |
| database storage (`postgresql.go`) | a table of id, type, value | the same, in transactions, with retries |
| HTTP API (`router.go`, `middleware.go`) | none of its own | subnet, checksum, decompress, decrypt; read and update handlers; shutdown |
| gRPC API (`grpcapi`) | none of its own | `UpdateMetrics`, subnet interceptor, graceful stop |
| audit (`audit`) | observers | `LogEvent` to a file and a URL, in a goroutine per request |
| `Run` (`server.go`) | errgroup, signal context | restore, start, wait |

Hard: saves read the live map without its lock; the backup is overwritten in
place; crashes and restarts; batches that fail in the middle; shutdown while
requests run. Correct means: what a completed save held survives, a file never
holds a value that was not there, updates are saved in the end, a batch is
applied once and as a whole (in the database) or up to its first mistake (in
memory), the server's exit, its answers and its audit log tell the truth (with one
gap, the end of a batch's transaction: section 4), and a
shutdown answers what was accepted and ends.

Everything else (`pkg/retry`, `pkg/pool`, `cmd/*`, configuration, generated
code) is listed in `PROJECT.json` with its status.

## 2. Modules

| module | models |
|---|---|
| `TickLedger` | what the agent promises about `PollCount`, as an abstract ledger |
| `AgentPipeline` | the agent: pollers, channel, aggregator, storage, reporter, `Run` |
| `AgentPipelineProofs`, `AgentOrderProofs` | theorems about `AgentPipeline` |
| `Persistence` | the server without a database: storage, cacher, file, crash and restart |
| `SendContract` | what the reporter relies on when it calls `SendMetrics` |
| `RestTransport` | one `SendMetrics` call over HTTP, and the server's pipeline for `POST /updates/` |
| `RestTransportProofs` | theorems about `RestTransport` |
| `MetricRows` | rows of the metrics table, and what a statement does to one |
| `AtomicBatches` | what a handler relies on when it updates a repository with transactions |
| `DatabaseStore` | the database storage under the update handlers of several clients |
| `DatabaseStoreProofs` | theorems about `DatabaseStore` |
| `MemoryRows` | what the memory storage does to one metric and to a batch |
| `PrefixBatches` | what a handler relies on when it updates the memory storage |
| `MemoryStore` | the memory storage under the update and read handlers of several clients |
| `MemoryStoreProofs` | theorems about `MemoryStore` |
| `ServerLifecycle` | the server's `Run`: listeners, requests, audit, shutdown; an agent's call over gRPC |
| `ServerLifecycleProofs` | theorems about `ServerLifecycle` |
| `PersistenceProofs` | theorems about `Persistence` |
| `MCAgentPipeline`, `MCPersistence`, `MCRestTransport`, `MCDatabaseStore`, `MCMemoryStore`, `MCServerLifecycle` | the instances TLC checks |

`AgentPipeline` uses the transport through its outcome: while it sends, every
step of it is one of `SendContract` (`SendsKeepContract`), in which batches are
applied in any order and once, success comes after all of them, and what a
failure left over may be applied later. `RestTransport` shows that a call over
HTTP keeps this contract, `ServerLifecycle` that one over gRPC does, with one
batch (`ContractSpec` in both). `MemoryStore` and `DatabaseStore` are the
server's two storages, of which a server has one, against rows of the same kind
and two contracts: `AtomicBatches`, and the weaker `PrefixBatches`.
`Persistence` is the memory storage with the cacher beside it, which there
reads the map without the lock, and needs less of the rows. `ServerLifecycle`
has of a storage only that requests are in it, and what its `Close` waits for.

Definitions whose comment starts with "Mutant" are not part of a specification:
each is a plausible bug, put in place of the definition it mutates to see that
a property notices it.

### AgentPipeline

State and code correspond as follows.

| variable | code |
|---|---|
| `rounds`, `counter` | `counter.Add(1)` and `counter.Swap(0)`; a value is the *set* of polls it counts, so its cardinality is the int64 |
| `pc`, `pending` | where a goroutine is in `Poll`, and the metrics `PollOnce` still has to register |
| `ch` | `pollCh` |
| `agg`, `item` | `RunAggregator` at its select, or in `merge` with a metric |
| `heap`, `store`, `report` | map objects, the one `MemoryStorage.Metrics` refers to, the one the reporter holds: aliasing is explicit |
| `rep`, `toSend`, `server` | the reporter, the names whose batch the server has not applied, and what the server accumulated |
| `cancelled`, `firstErr` | the errgroup: the context, and the error `Wait` returns |
| `main` | `Run` |

Each action is one atomic step of a goroutine: a channel operation, one call
under the storage's lock, one select. `Collect` builds the list of metrics,
which is when the counter is swapped; each `Register` is one `ch <- metric`. A
select whose cases are both ready takes either, so `Tick` and `Receive` stay
possible after the cancellation. `NewReporter` runs after the other goroutines
were started, and when it fails `Run` returns without waiting for them.
The transport is abstracted to its outcome: batches of the report are applied
in any order (`Deliver`), then `SendMetrics` returns (`SendReturns`), or fails
at any point (`SendFails`), also after everything was applied, and what it gave
up may arrive later (`DeliverLate`). `SetOrUpdateMetric`'s type error cannot
occur, since the agent's names have one type each.

`CustomPoller` is the poller with the counter; it and `RuntimePoller` cannot
fail (their values are formatted numbers), `PSPoller` can.

### Persistence

`mem` is the map, `nan` the gauges that hold NaN; `batch` is what the writer
with the lock still has to apply (one `ApplyNext` per metric); `saver` is
`saveMetrics`, which takes the names in the map one at a time, then marshals
the values *it finds at that moment*, then truncates, writes and syncs. `file`
is what the file system shows; `floor`, `begun` and `intact` are history
variables: what the map held when the last completed save began, when the
current one began, and whether a save has touched the file since.

`Kill` ends the process and keeps what was written, `PowerLoss` may keep only
a part of what was not synced, `Exit` is the clean stop, which makes no last
save. `ConcurrentMapFatal` is the runtime's check for a map written during a
range. Restoring reads elements until the text ends or breaks (`Readable`).

Abstraction: a value is its version, so a counter is updated by one and gauges
by their n-th value; every metric keeps its type.

### RestTransport

| variable | code |
|---|---|
| `conf` | which middlewares are installed on each side; `Init` takes any of the 32 configurations |
| `jobs` | the closed channel of batches |
| `pc`, `batch`, `attempt` | a worker: taking a batch, about to make an attempt, waiting for an answer, returned |
| `layers` | the body of the worker's request: how many layers (gzip or RSA) are around the JSON |
| `net` | requests sent and neither served nor lost |
| `answer` | the answer that arrived for the attempt a worker waits for |
| `applied` | how often the server applied a batch |
| `cancelled`, `failed`, `result` | the errgroup's context, whether a worker failed, what `SendMetrics` returned |

resty runs the request's middlewares again for each attempt, and they replace
the body of the *same* request. So `Post` puts one more layer around what is
there, after the checksum was taken from it. The server takes one layer off
(`Verdict`). This is why a second attempt is always refused, a retry after a
lost request never succeeds, and yet nothing is applied twice when the first
request arrives late. With a public key, the second attempt fails in the
agent, since RSA cannot take a text as long as its own output. `EncryptFails` is
also the key file that cannot be read.

`Retry` is a timeout or a transport error, at any moment of the wait, also when
an answer is just arriving. `Serve` may find nobody waiting. A refused update
(`"storage"`) leaves nothing applied: the batches of the agent have no
mismatched types, and the database applies a batch in a transaction. `Serve`
takes the storage's nil for an applied batch; with a database that is true unless
the end of its transaction was lost (see `DatabaseStore`).

### DatabaseStore

| variable | code |
|---|---|
| `table` | the committed rows of `metrics` |
| `newest`, `lock` | the newest version of each row, and the transaction that wrote it and holds it; `newest` and `table` agree on rows that are free |
| `pc`, `batch`, `next` | a request: its handler and its transaction, the statements, the next one |
| `method` | the method of the storage that the handler called |
| `answer` | what the handler answered |

`SendBatch` sends all statements with one Sync, and PostgreSQL runs them as one
transaction at READ COMMITTED. Each `INSERT ... ON CONFLICT DO UPDATE` waits for
its row, reads its newest version, and keeps it locked to the end (`Exec`,
`Commit`, `Abort`). Names that have no row yet are locked as well: a second
insert of a name waits for the first. `DeadlockAbort` is PostgreSQL's detector,
`ConnectionLost` any other end of a connection; these, and row locks, are
external. `AnswerEarly` is a handler whose context ended: it answers, and the
transaction may still commit. `SetOrUpdateMetric` is a batch of one.

What the storage returns is less than what happened. Each `br.Exec` returns when
its statement is complete; the end of the transaction is only read by `br.Close`,
which `SetOrUpdateMetricBatch` defers and whose error it discards. So once all
statements have run (`AllRan`), a transaction that is rolled back because the
connection breaks, or a handler whose context ends, can make the storage return
nil as well as an error: `"lost"`, `Heard`, and `AnswerEarly`. `DB.Exec`, which
`SetOrUpdateMetric` calls, waits for the end and reports its error.

A value is what its text is to `CAST(... AS BIGINT)`: a number, or `Other`. The
handlers' checks of names and types come before the storage and leave it
alone, so that the batches are those that pass them. In a batch every name
occurs once, as in the maps that agents send.

### MemoryStore

| variable | code |
|---|---|
| `metrics` | `MemoryStorage.Metrics` with the metrics its pointers lead to |
| `holder` | the request that holds `MemoryStorage.mu` |
| `pc`, `batch`, `next` | a request: where its handler is, what it sends, the next metric of the batch that holds the lock |
| `answer` | what the handler of an update answered |
| `alive` | the process, until the runtime ends it |
| `base` | history: the metrics when the lock was last free |

The update handlers are `UpdateMetric` and `UpdateMetrics`; after `Lock`, each
`SetValue` is one turn of the loop, and `ReturnMismatch` or `Return` leaves it
and releases the lock. A single update is a batch of one. `SetValue` of an
integer wraps around (`Wrap`). A mistake in the middle of a batch leaves what
came before it.

Readers do not wait for updates: `GetMetric` returns a pointer, which `getMetric`
and `getMetricJSON` read after the lock was released (`AnswerGet`), and
`GetMetrics` the live map, which the page ranges over (`BeginPage`,
`EndRange`) and whose values it prints (`AnswerPage`). What a reader sees is
therefore not kept in its state: `OneChangePerBatch` says of every step what any
reader could see. `ConcurrentMapFatal` is the runtime's check for an insert
while a page ranges; the check is best effort, so that the insert may pass as
well. A torn read of one word does not exist on the platforms Go supports for
int64 and float64 with 64 bits.

`getMetric` looks a metric up by its name only, and `updateMetric` compares types
in the storage alone, so that types are no part of `Lookup`.

### ServerLifecycle

| variable | code |
|---|---|
| `database` | configuration: `cfg.DatabaseDSN`; both values are initial |
| `main`, `result` | where `Run` is, and what it returns |
| `signalled`, `cancelled`, `firstErr` | the signal's context, the errgroup's context and its error |
| `cacher`, `http`, `grpc` | `Cacher.Run`, `Router.Run`, `GRPCAPI.Run`, with their listeners: `left` is one that failed, whose connections are still served |
| `elapsed` | `apiShutdownTimeout` of the gRPC server is over |
| `handler`, `applied` | the goroutine that serves a request, and what the storage has applied |
| `call`, `leaving` | `GRPCTransport.SendMetrics` of an agent, and whether the agent's context is done |
| `audit`, `late` | where `LogEvent` is with the event of a post, and whether `DefaultTimeout` is over |

`Run` starts its parts one after the other, and an error on the way makes it
return while the ones before it run. `Return` is errgroup's: the first error is
kept and cancels the others. `HttpStops` is the shutdown with a context that is
already done: `net/http`'s `Shutdown` closes the listener, looks for idle
connections once, and returns `context.Canceled`. `GrpcDrains` starts
`GracefulStop`; `GrpcDrained` and `GrpcTimesOut` are the two cases of the select
after it. `Close` is deferred: a pool of connections waits for those in use.
The process ends with `main = "exited"`, and everything in it.

A call of an agent is answered (`AnswerCall`) only over a connection that is
there; it breaks at any time (`CallBreaks`) and ends with the agent's context
(`CallCanceled`). It has no deadline. The server may begin a call its agent has
given up.

`PostApplied` and `CallApplied` are the storage's nil. For what they say of the
storage itself, `AuditedWasApplied` and `ContractSpec` inherit from a database
that a batch whose transaction ended after its last statement was rolled back
although the storage returned nil (see `DatabaseStore`).

An audit goroutine goes to the file, under the observer's mutex, and then to
the URL, both under one timeout (`AuditTimesOut`). `AuditLocks` finds the
timeout over if the mutex came late. Both observers and both listeners are
configured; the memory storage has the cacher, whose periods are in
`Persistence`.

## 3. Runs

| run | question | instance |
|---|---|---|
| `agent` | are polls exact, reports private, gauges ordered, clean exits justified, is the ledger refined, is the transport used within its contract, do polls arrive, and what can block a shutdown? | two pollers with two rounds and one, of which the second can fail; channel of 2 (a round of both has 3 metrics); 2 maps |
| `persistence` | does the file tell the truth, survive, stay readable between writes, and have every update in the end? | two metrics, one of which can be NaN, two updates each, single updates and a batch of both |
| `restart_refused` | (finding) does the server start after a crash? | the same |
| `restart_loses` | (finding) does a start that succeeds have what was saved? | the same |
| `rest_transport` | is a batch applied at most once, and only as configured, does success mean that all were, and does the call return? | three batches, one too long for RSA; two workers, two attempts; every configuration |
| `rest_signed` | (finding) is a signed report accepted? | two batches, two workers, three attempts |
| `database` | are batches atomic, what does "ok" mean, do metrics keep their types, when do batches wait for each other, does every update end? | two clients, two rows; a report in both orders, two with mistaken types; an int64 of -2..1 |
| `database_page` | (finding) can what was stored be shown? | the same |
| `memory_store` | does a batch take effect in one piece, what do readers see, is every request answered? | two clients, two metrics; a report in both orders, one that wraps a counter, two with mistaken types; an int64 of -2..1 |
| `memory_page` | (finding) does the page leave the process alive? | the same |
| `server` | do the exit, the answers and the audit log tell the truth, are calls drained, does everything end that has to? | with a database and without; two of two posts and a call |
| `server_cuts` | (finding) does a clean shutdown wait for posts? | the same |

Bounds. Two maps are enough for the agent: the reporter holds at most one
beside the storage's, and a dropped one is collected. A second round of the
custom poller gives a second delta in flight while the first is in the
channel, the storage or a report; a second round of a gauge lets it overtake
the first. A channel smaller than a round makes pollers wait in the middle of
`PollOnce`. `MaxRounds`, `MaxVersion` and `Load` are the only bounds; they stop
ticks, updates and requests, never anything that follows from them. In `RestTransport` three
batches for two workers make one worker come back to the channel with the
other's request still on its way; the code makes four attempts, and two have a
first one, a retry and a giving up; the theorems are for any number. In
`DatabaseStore` two clients whose batches name the same two rows in both
orders reach a deadlock, and with `Limit = 2` a sum overflows after two
reports; values need no other bound. `MemoryStore` has the same width and its
two clients send or read again and again; a page and an update, two updates, or a
reader and an update are all the pairs that can meet. In `ServerLifecycle`
`Load = 2` of three requests gives every pair of them: two posts share the
audit file's mutex, and a post and a call are under way in one shutdown; the
theorems are for any number. Deadlock is checked where every step stays
possible; in `agent` the agent really can stop for ever (a poller waiting for
room after the aggregator left), so it says `CHECK_DEADLOCK FALSE`, and
`ShutdownEndsOrBlocks` says that it is the only way.

Fairness. A goroutine that stays runnable runs: weak fairness of each step. A
select with two ready cases picks at random, so the `ctx.Done` case is taken
when it is ready again and again: strong fairness of the stops. `SendMetrics`
returns because each attempt has a timeout and attempts are bounded; this is
the REST transport, which `RestTransport` shows to end, while a call over gRPC
has no deadline and ends for certain only with the agent or the server
(`CallsEndAtShutdown`), so that the agent's liveness is not claimed with it. Nothing
is assumed of signals, failures, ticks after the first, late deliveries, or
crashes. In `RestTransport` workers run and `Wait` returns; a worker that
waits can always go on because the client has a timeout, so that nothing is
assumed of the network and the server. In `DatabaseStore` a statement that can
have its row again and again gets it (waiters queue for a row: strong
fairness), transactions go on, and the database looks for deadlocks; that
clients send or leave is not assumed. In `Persistence` the save's ticker ticks
and each of its steps, and the batch in progress, goes on; the range visits
every metric that is there. In `MemoryStore` and for the audit file's mutex,
a goroutine that finds the lock free again and again gets it: Go's mutexes hand
a lock over to one that has waited for a millisecond, hence strong fairness. In
`ServerLifecycle` the goroutines of the server run, saves end and timers fire;
nothing is assumed of storages, of the audit URL, of signals and failures, of
when the HTTP or gRPC listener fails, nor of an agent that waits. Two facts of
the libraries are assumed: a handler whose context `Stop` has cancelled leaves
the storage (`StoppedCall`), and a client notices that its connection was closed
(`ClosedCall`).

## 4. Findings

* **A crash during a save keeps the server from starting**
  (`restart_refused`, `StartsAfterCrash`). `saveMetrics` opens the only copy
  with `O_TRUNC` and then writes it; `Restore` returns an error on an empty or
  torn file, and `server.Run` returns it.
* **A torn file can restore silently** (`restart_loses`,
  `RestoresCompletedSaves`). `Restore` loops over `decoder.More()` and does not
  read the closing bracket, so a file that ends between two elements looks
  complete.

* **A secret on both sides stops reporting over HTTP** (`rest_signed`,
  `SignedReportsAccepted`). The agent takes the checksum of the JSON and then
  compresses or encrypts it; the server compares it with the checksum of the
  body it received. Each report is answered with 400, which ends the agent.

* **A gauge under a counter's name takes the page away** (`database_page`,
  `PageIsServed`). The database storage does not compare types: the row stays a
  counter with a text that is no int64. `GetMetrics` fails on it as a whole,
  and `GET /` answers 500 until a gauge that looks like an int64 is stored there.

* **The page can end the process** (`memory_page`, `PageIsServed`). The template
  ranges over the live map of the memory storage, and an update that inserts a
  metric meanwhile is a fatal error of the runtime, which no `recover` catches.

* **The HTTP server does not shut down gracefully** (`server_cuts`,
  `PostsDrained`). The timeout's context is derived from the one that is done:
  `Shutdown` returns `context.Canceled` at once, and the process exits, cleanly,
  while updates are being applied. `CallsDrained` shows that the gRPC server,
  whose timeout has a context of its own, waits.

`RestTransport` also records that a retry cannot succeed, since its body is
compressed twice. No document promises that it does, so it is not listed as a
finding; `AtMostOnce` depends on it: the mutant of `Post` that compresses a
body once applies batches twice.

`ShutdownEndsOrBlocks` also records that a poller waiting in `registerMetric`
after the aggregator left keeps `Run` from returning. The channel holds 1024
metrics, so that this needs a storage that is much slower than the pollers.

`ShutdownEndsOrWaits` records that with a database the process does not exit
while a post, or a call whose listener failed, is in the storage: the pool's
`Close` has no timeout, and nobody cancels the request.

`AtomicSpec` records that 200 can be answered for a batch that is rolled back:
`SetOrUpdateMetricBatch` discards the error of `br.Close`
(`internal/storage/postgresql/postgresql.go:192`), which alone knows whether the
transaction ended well. The shortest way there: the statements of a batch have
run, the connection or the handler's context ends, nil is returned, and the
transaction is rolled back. The agent's report is gone, and nothing is logged. The contract
`AtomicBatches` therefore has `Lose`; `TruthfulSpec`, the contract in which "ok" is
the truth, does not hold, and `OkIsTrueUnlessCut` proves that nothing else is in its
way. No document says what a nil of the repository means, so that this is not listed
as a finding.

`getMetric` says that it retrieves "a single metric by type and name"
(`internal/router/router.go:432`) and ignores the type; no run is spent on it.

## 5. Proofs

`AgentPipelineProofs` and `AgentOrderProofs` prove, for any sets of pollers,
gauges and maps, any capacity and any number of rounds that satisfy
`AgentConstants` and `OwnGauges` (pollers sample different gauges):

| theorem | property |
|---|---|
| `AgentTypes` | `TypeOK` and `Shape` |
| `EveryPollOnce` | `ExactlyOnce` |
| `ReportStaysPrivate` | `ReportIsPrivate` |
| `CleanExit` | `CleanExitWasAskedFor` |
| `AgentImplementsLedger` | `LedgerSpec` |
| `AgentKeepsContract` | `SendsKeepContract` |
| `GaugesMoveForwardTheorem` | `GaugesMoveForward` |

`TypeOK` is not inductive alone: `Register` takes the head of `pending`, which
must not be empty, and `Deliver` reads `heap[report]`, which must exist.
`Shape` says so for each control state, and that a report with something left
to send is a map other than the storage's. `CountInv` adds to `ExactlyOnce` that
only the custom poller sends counters; every step then moves whole sets of
polls from one place to the next (`Partition`), and lemmas about queues
(`QueueAppend`, `QueueTail`) say which. `StopInv` says who cancelled the
context and that an error `context.Canceled` was provoked by a signal. The
refinement maps each step to a step of the ledger or a stutter
(`StepSimulates`): `Tick` to `Count`, `Deliver` to `Report`, the reporter's end
to `Close`, `DeliverLate` to `Arrive`, all others to stuttering. Towards the
transport the same steps are those of `SendContract` (`StepKeepsContract`):
`Deliver` and `DeliverLate` are its `Deliver`, and the end of a send its
`Succeed` or `Fail`.

`GaugesMoveForward` needs an invariant over all places a sample passes: `InChain`
says for each gauge that from the server back to its poller's round (the unsent
part of the report, the storage, the aggregator's hands, the channel, `pending`)
no sample is newer than one behind it, and `Queues` that queues are in that order
themselves. Each step moves samples from one place to the next (`ChainMoves`).
`OwnGauges` is used where a sample enters and leaves `pending`: two pollers of
one gauge would have rounds that are not comparable.

`RestTransportProofs` proves, for any batches, workers and attempts that satisfy
`RestConstants`:

| theorem | property | assumes |
|---|---|---|
| `TransportTypes` | `TypeOK` and `Shape` | |
| `BatchesAtMostOnce` | `AtMostOnce` | |
| `AppliedAsConfigured` | `AppliedWhenConfigured` | |
| `VerifyingServerAppliesNothing` | (the extent of the finding `rest_signed`) | |
| `TransportKeepsContract` | `ContractSpec` | a worker exists |
| `SuccessIsExactlyOnce` | nil means that each batch was applied exactly once | a worker exists |

`AtMostOnce` says nothing of requests on their way, so it is not inductive.
`Once` adds that the first attempt of a batch, the only one that carries one
layer, is a single request, that it is no longer on its way when the batch was
applied, and that before it nothing of the batch was sent. `Pending` says where
a batch that was not applied is: in the channel, with a worker, or given up
after a failure. Then a return of nil finds all of them applied, but only when
there is a worker to empty the channel: with a rate limit of 0 the code returns
nil at once, and the theorem's assumption says so. Both invariants together are
`SuccessIsExactlyOnce`. `Sealed` says of a request that its checksum is of the
body before the last layer, and that RSA could encrypt its batch if the agent
encrypts. So what the server applies agrees with both configurations; and a
server with a secret applies nothing at all, since no request carries the checksum
of its own body: `AppliedWhenConfigured` asks of such a server only that the
agent signs, which is what the code is meant to do.

`DatabaseStoreProofs` proves, for any names, clients and batches and any width of
integers that satisfy `RowConstants` and `BatchConstants`:

| theorem | property | assumes |
|---|---|---|
| `DatabaseTypes` | `TypeOK` | |
| `TypesStayTheorem` | `TypesStay` | |
| `DatabaseIsAtomic` | `AtomicSpec` | |
| `OkIsTrueUnlessCut` | `TruthfulSpec`: "ok" is said only of what was applied | no batch is cut off between its last statement and its commit (`EndIsCut`) |
| `UniformPageIsServed` | `PageIsServed` | each name is sent with one type |
| `DeadlocksCross` | `CrossedWaits` | |
| `OrderedBatchesNeverDeadlock` | nobody is `Deadlocked` | one order of the names fits all batches |

The invariant is `Locks`: a transaction holds exactly the rows it has written,
each of them is what its statement makes of the *committed* row, and a free row
has no other version. So a commit puts `After(table, batch)` into the table
(`CommitIsAfter`), although other transactions committed since it began, and
maps to `Apply` of `AtomicBatches`; all statements map to stuttering. A batch that
ends after its last statement and before its commit maps to `Lose`, which asks
that it could have been applied at that moment: `RanIsApplicable`, from the same
invariant. That each
name occurs once in a batch is needed there: it makes the committed row the one
the statement read. `UniformPageIsServed` is the other side of the finding
`database_page`: names used with both types are the only way to it.

`CrossedWaits` follows from `Locks`: the row that one transaction of a circle
waits for is held by another, which has named it before its own. If the batches
agree on an order of the names, the transaction of the circle that waits for the
*least* row would be waited for because of a row it named before, a smaller one
than another waits for (`LeastRank`); so there is no circle. The code sends
batches in the order of a Go map, which agrees with none; agents that sorted
them would never make the database look for a deadlock.

`MemoryStoreProofs` proves, for any names, clients and batches and any width of
integers that satisfy `RowConstants` and `MemoryConstants`:

| theorem | property | assumes |
|---|---|---|
| `MemoryTypes` | `TypeOK` | |
| `OneChangePerBatchTheorem` | `OneChangePerBatch` | |
| `MemoryKeepsPrefixes` | `PrefixSpec` | |
| `UniformUpdatesSucceed` | no update fails | each name is sent with one type |
| `StoredNamesKeepThePage` | `PageIsServed`, from then on | a state in which every name is stored |

`TypeOK` says of a stored counter only that it is an integer or `Other`; that it
counts, so that a sum is an integer, is `Counters`. `Held` says that the request
in the loop is the holder of the lock, and that the metrics are those found at
`Lock` with the first `next - 1` elements merged. The return, with or without a
mismatch, is then the `Apply` of `PrefixBatches` for that many elements, since
every other step leaves `base` alone; `MergedFirstStep` says what one
more element changes. That each name occurs once in a batch is needed for "at
most one change".

The last two are the other side of `ReturnMismatch` and of the finding
`memory_page`. A stored metric keeps the type it was stored with
(`SetValueKeepsType`), so that another type is the only error, and metrics are
never removed, so that the page can end the process only while there are names
left to insert.

`PersistenceProofs` proves, for any metrics and batches and any number of updates
that satisfy `PersistenceConstants` and `NoFileIsNoFile`:

| theorem | property | assumes |
|---|---|---|
| `PersistenceTypes` | `TypeOK` | |
| `SavedWasRealTheorem` | `SavedWasReal` | |
| `CompletedSaveSurvivesTheorem` | `CompletedSaveSurvives` | |
| `StartableTheorem` | `StartableBetweenWrites` | |
| `WholeWritesKeepTheBackup` | `StartsAfterCrash`, `RestoresCompletedSaves` | the file is restored; no write of it is interrupted |

`SavedWasReal` speaks of the file; `DataWasReal` says the same of what is
marshalled and not written yet, and versions only grow while the process is up.
`CompletedSaveSurvives` needs to know how far a save is (`SaveCovers`): the list
has every metric that was there when the save began, what was marshalled is at
least as new as then although updates ran meanwhile, and the file is touched only
after all were marshalled. `IntactCovers` carries the result from the end of the
save over every crash to the next start.

`StartableBetweenWrites` and `WholeWritesKeepTheBackup` are the other side of the
findings `restart_refused` and `restart_loses`. The assumption `WritesComplete`
of the second is about behaviours: after `Open` comes `Write`, and nothing else
changes the file. Kills at any other time, saves that fail in any other way, and
updates lost since the last save are all allowed. `KeptBetween` then says that
the versions of the last completed save are no more than those of the current
one, of the map and, except between `Open` and the end of the write, of the file.
So a write that replaced the file as a whole (a temporary file and a rename)
would be enough for both properties.

`ServerLifecycleProofs` proves, for any posts, calls and load that satisfy
`RequestConstants`:

| theorem | property |
|---|---|
| `ServerTypes` | `TypeOK` |
| `CleanExitTheorem` | `CleanExitWasAskedFor` |
| `CallsDrainedTheorem` | `CallsDrained` |
| `AuditedWasAppliedTheorem` | `AuditedWasApplied` |
| `CallsKeepContract` | `ContractSpec` |
| `PoolDrainsPosts` | `PostsDrained`, with a database |

Three invariants: `Cancellation` says where a cancellation and an error
`context.Canceled` come from, and needs that the HTTP server cannot have stopped
otherwise; `Draining` says that a gRPC server that is drained or was never there
serves nothing, and that `Stop` comes after the timeout; `Truthful` says that
handlers, agents and audit events speak only of what was applied. `PoolDrainsPosts`
is the extent of the finding `server_cuts`: with a database the deferred `Close`
of the pool waits for the updates that `Shutdown` did not wait for, so that only
updates of the memory storage are cut off.

Every safety property and every action property of a passing run is stated by
one of these theorems. The liveness properties (`PollsReachTheServer`,
`ShutdownEndsOrBlocks`, `UpdatesAreSaved`, `Terminates`, `UpdatesEnd`,
`RequestsEnd`, `ShutdownEndsOrWaits`, `CallsEndAtShutdown`, `AuditsEnd`) are
model-checked only: liveness under fairness is out of the prover's reach. The
models' data are defined without recursion, so that no theorem needs
an induction over it.

## 6. Not modelled

* Configuration: flags, environment and a file are parsed once and
  sequentially; the results are constants or initial states.
* Connecting to the database, the migration, and `Ping` with its retries
  (`pkg/retry`): a sequential loop at startup whose failure is `StorageFails`; and
  the lookup of one row. `GET /ping` changes nothing.
* `pkg/pool` is used by its tests alone. The generator of `Reset` methods, the
  linter and key generation are programs over files; protobuf code and mocks are
  generated. None keeps state that the properties are about.
* After a power loss the old content of a truncated file, which a journalling file
  system may bring back, is not among the outcomes.
* Panics of a handler, which `net/http` recovers.

## 7. Plan

All components with concurrent state are modelled, in this order: the agent,
persistence, the REST transport, the database storage, the memory storage, and
the server's lifecycle with audit and the gRPC transport. What could follow:

1. The server with its storage in one module (`ServerLifecycle` with the rows of
   `MemoryStore`), for the saves that run while the server stops.
2. Theorems about the modules together: that `TickLedger` and `SendContract`
   imply what a user of the agent sees, without going back to its steps.
