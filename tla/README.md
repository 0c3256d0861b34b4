# Pucora CE: a TLA+ model of the gateway

Pucora CE is an API gateway assembled from libraries. What this repository
itself decides is *how* they are put together: in which order the process
starts and stops them, which layer of the request path wraps which, how the
HTTP client of a backend is built, and how the integration harness drives a
gateway process. That is what the modules here model, check with TLC and prove
with TLAPS: every safety invariant that a passing run checks on a small instance is a
theorem for every value of the constants. Code of the libraries is modelled from
the way this repository uses it and marked external in `PROJECT.json`.

## 1. Inventory

| Component | Source | State | Operations | Module |
|---|---|---|---|---|
| Process lifecycle, executor | `cmd/pucora-ce/main.go`, `executor.go` | three nested contexts, the signal channel, the members of the error group, the agents, the exporters | signal handling, the start-up steps with their early returns, starting agents and router, joining, the deferred close | `GatewayLifecycle`, `ServiceGroup`, `GatewayLifecycleProofs` |
| Request pipeline, router engine | `executor.go`, `router_engine.go`, `handler_factory.go`, `proxy_factory.go`, `backend_factory.go` | position and outcome of each request; token buckets and breaker shared by all | walk down the layers, be refused, call a backend, walk back | `RequestPipeline`, `RequestPipelineProofs` |
| Backend HTTP client | `backend_factory.go`, `backend_client_tls.go` | the layers of each executor; transports in shared memory | build an executor; clone, configure and use a transport | `BackendClient`, `BackendClientProofs` |
| Integration harness | `tests/integration.go`, `cmd/pucora-integration/main.go` | gateway processes and mocked backends on fixed ports, the clock; the cases of a session, their messages and verdicts | start, wait for readiness, check a case, close, exit | `IntegrationRunner`, `HarnessSession`, and their `...Proofs` |
| `test-plugin` command | `plugin.go` | the loop over artifacts, verdicts, exit code | open, check, finish | `PluginTest`, `PluginTestProofs` |
| Usage opt-out | `executor.go`, `tests/integration.go` | the environment of the gateway under test | build the environment, decide about the report | `StartupDecisions`, `StartupDecisionsProofs` |
| Default logger, token rejecter, plugin loaders | `executor.go`, `plugin.go`, `sd.go` | none after start-up | one start-up step each | steps of `GatewayLifecycle` |
| WebSocket example | `examples/websocket/mock-backend`, `examples/websocket/smoke` | connections, the goroutines at their ends, frames in them, what each client read | dial, handshake, envelope and reply, echo, read, time out | `WebSocketExample`, `WebSocketExampleProofs` |
| Encoders, aliases | `encoding.go`, `main.go` | none | one-time registrations in libraries | not modelled |
| Other examples, test suites | `examples/`, `tests/*_test.go` | none, or generated | | not modelled |

How they interact: `main` makes the root context and hands it to the executor.
The executor builds the backend, proxy and handler factories once and passes
the proxy factory to three users (HTTP router, gRPC server, async agents), which
is why a request has more than one way into `RequestPipeline`. Outside of the
router's handler the server wrappers are stacked. Agents and router run in
one error group and stop one another through contexts only. The
request executor of `BackendClient` is the innermost element of the
backend stack. The harness sees the gateway as a process that binds a port, or
fails to, and dies some time after a kill.

What is hard here: the interleaving of signals, agent errors, and the end of the
router with a start-up that may still be going on; a context cancelled by any of
several parties; error returns in the middle of a start-up; limits and a breaker
shared by concurrent requests; a default HTTP transport shared by all backends;
readiness polling against processes that outlive the run that started them; an
environment put together from two sources, the later of which wins; one backend
connection shared by many WebSocket clients, which is lost and opened again.
`PROJECT.json` lists each of these hazards at its line, with the
properties that cover it, and says why a few have none.

## 2. The modules

### GatewayLifecycle (core)

One run of the process. `main` is the control point of the main goroutine
through `main()` and the closure of `NewCmdExecutor`; `handler`, `reporter`,
`waiter` and `router` are the other goroutines, `agent` the consumers behind the
agent starter. `sigs` is the channel of capacity 1 (a signal that finds it full
is dropped, one that arrives before `signal.Notify` ends the process).
`ctxDone`, `grpDone` and `grpClosed` are the root context, the cancellation by
the error group and the call of `closeGroupCtx`; `gctxDone` is their
disjunction, as the contexts derive from one another.

The configuration `cfg` is chosen in `Init` and fixed: the agents declared,
`SequentialStart`, whether usage is reported, which start-up step fails, if any,
and whether the metrics register is the package's own or an injected one. Steps
that end the executor when they fail are instances of `Check` (`LoadConfig`,
`NewLogger`, `ValidateKafka`, `ValidateSOAP`, `BootstrapGRPC`); steps whose
failures are only logged are instances of `Logged` (`LoadPlugins`,
`NewTokenRejecter`, `NewEngine`), and `RegisterMetrics`. A command line other than
`run` never reaches the executor, which is a failed `LoadConfig`.
`StartEngines` has the three branches of `executor.go:258-274`. `Wait` joins the
group, `ExecutorReturns` runs the deferred close, `MainCancels` runs the
`cancel` that main deferred, and `MainReturns` ends every goroutine that is left.

External: that an agent leaves when its context is done or a fellow agent
failed, that `router.Run` returns when its context is done or when it cannot
serve, and errgroup's cancellation on the first error.

`ServiceGroup` is the abstract specification: one server and a set of helpers;
whoever ends while at work stops everyone; the process ends only when nobody is
at work and nobody starts afterwards. `GatewayLifecycle` refines it through
`lifeView`, `stoppingView`, `serverView` and `helperView`.

### RequestPipeline

`HandlerStack`, `ProxyStack` and `BackendStack` list the layers in the order in
which the source wraps them, the outer one last. `EngineStack` is what
`NewEngine` registers before any endpoint. `ServerStack` is the opposite of how it
reads in `executor.go`: a `RunServer` wraps the handler it is given and hands it
on, so the one created first, next to the listener, ends up outermost. A request (`phase`, `pos`)
walks `Chain` down from the top of its way in and its answer walks back. Each
layer has a role: gates refuse a request that does not satisfy them, limiters
take a token or refuse, the breaker refuses while open and records on the way
back, sinks answer by themselves (WebSocket, gRPC, SOAP, Lambda, AMQP, pub/sub,
and the HTTP backend at position 0), the others let the request pass. An endpoint
is the set of layers it enables. A preflight, on endpoints with CORS, satisfies
no gate; the CORS layer answers it and lets everything else through. The breaker
opens after `MaxErrors` failures that follow each other, and while it is open the
results of requests let in before do not count. Its half-open state is
simplified to closed with a count of zero; several backends of one endpoint are
one.

### BackendClient

`requestExecutor` is the composition in `newRequestExecutorFactory`, as the
sequence of layers it yields for a configuration; `OAuth2` shows that the
client-credentials client is not given what was built before it. A call obtains
its transport in separate steps (`Begin`, `cloneHTTPTransport`, `SetTLSConfig`,
`Send`), so that two calls can interleave between cloning and
configuring.

### IntegrationRunner

Several calls of `NewIntegration` in sequence, with processes and servers that
survive the call that made them. Time counts half seconds, which is enough to tell
1.5s from 2s. It passes while the harness sleeps (`Tick`) and while an attempt on
the ready URL is under way (`GetTakesTime`): `http.Get` has no timeout, so the
control point `poll` may be left by `PollOK`, `PollAgain` or `PollGivesUp` at any
time, or never. A gateway that was killed keeps its port for a while but answers
nobody. The history variable `tries` counts the attempts of a run. `TestReturns`
stands for a caller that checks its cases and closes the Runner.

### HarnessSession

The integration command: `NewIntegration` with the three ways in which it can fail
(the gateway does not start, is killed because of the specs, or is left running
because it was not ready), a loop over test cases, `Runner.Check` with
`assertResponse`, the close and the exit code. A case is reduced to how its
expectations relate to the answer (status, each kind of header mismatch, body and
schema); it may expect an error and describe an answer too. Each assertion is an
action, and the early returns of `assertResponse` are its `Returns`; the one for a
body that cannot be read drops the messages so far. `Satisfied` is the reference
definition the verdicts are compared with; it includes that "schema is used over
the body" (`tests/fixtures/specs/integration_schema.json`). `wrong` and `missed`
are history variables: the cases that were not satisfied, and those among them
that only missed the error they expect. An expected header with an empty list of
values, absent from the answer, makes `vs[0]` panic; the model has the panic and
what it leaves behind.

### PluginTest

The loop of `testPluginFunc` over every command line of at most `MaxArgs`
artifacts, each missing, unreadable or there, with every set of checks it fails.

### StartupDecisions

What the harness hands to a gateway and what the gateway makes of it. The state
is chosen in `Init`: the environment of the harness, the pattern flag split at
its commas (never empty: an empty flag is one empty pattern), and a
`telemetry/usage` block at the service or at an endpoint. An environment is a
function from the names of its variables. `StartCmd` puts the environment together
as `getEnviron` does: the list starts with `USAGE_DISABLE=1`, what the patterns let
through follows, and as `os/exec` keeps the last of two values, a variable that is
let through overrules the first. `startReporter` decides with
`usageReportingDisabled`; the hash of the configuration may fail.

### WebSocketExample

`examples/websocket`: smoke clients, the gateway and the mock backend, with one
connection shared by all clients of the chat endpoint and one connection per
client for the other two. A frame is its session, its body (a text or a blank
one) and whether the backend put `echo:` in front. `multiplexHandshake`,
`multiplexServe` and `directEcho` are the loops of the two handlers,
`multiplexReply` the answer to an envelope; `Dial`, `Write` and `Read` are the smoke
client with its exit codes, `Timeout` the deadline of its context. `Validated`
compares the token that `/token` hands out with the keys that `/jwk/symmetric`
serves. The gateway (`HubDials` to `CopiesBack`) is the `pucora-websocket`
library, modelled from `pucora.json` and `docs/websockets.md`: it shakes hands,
queues envelopes while it cannot write, announces clients that come and go, and
delivers by session. `Drop` loses a connection with what is in it.

## 3. Runs

| Run | Bounds | What it shows |
|---|---|---|
| `lifecycle` | 2 agents, 2 signals, every configuration | `ExitAfterGroup`, `SequentialOrder`, `RefusedConfigStartsNothing`, `StopHasCause`, `CloserClosedLast`, the refinement `ImplementsServiceGroup`, and the liveness properties `SignalStops`, `AgentFailureStops`, `RouterEndStops`, `ToleratedFaultServes` |
| `lifecycle_telemetry` | 1 agent, 1 signal | *violated*: `TelemetryClosed` |
| `pipeline` | 2 requests, 7 endpoints, 1 token, 2 errors open the breaker, 2 ticks | `AuthBeforeCost`, `CallsArePaid`, `BrokenSpendsNothing`, `PreflightPasses` |
| `client_tls` | 2 backends, 2 calls, 16 profiles | `OwnCertificate` |
| `client_stacking` | the same | *violated*: `AllLayersStacked` |
| `runner` | 3 runs, ready wait 1.5s, default startup wait | `LeavesOnlyWhenNotReady`, `AttemptsBounded`, `WaitEnds`, `ClosedIsFreed` |
| `runner_ready_own` | 2 runs | *violated*: `ReadyIsOwn` |
| `session` | 3 cases of 1406 kinds | `OnlyErrorsMissed`, `NothingHidden`, `GatewayTakenDown`, `BodiesClosed` |
| `session_expected_error` | 1 case of the same kinds | *violated*: `CountsUnsatisfied` |
| `test_plugin` | 2 artifacts, 1 additional check | `ExitTellsVerdict`, `NothingSkipped` |
| `decisions_default_flag` | 2 patterns of 5 kinds, 2 values of `USAGE_DISABLE`, every usage setting | *violated*: `OptOutHonoured` |
| `ws_example` | 2 clients, every pair of 8 command lines, 1 lost connection | `OwnReply`, `HandshakeHeld`, `Served` |

Why the bounds are enough. Two agents give every relation between agents there
is (one fails while the other runs, starts or has stopped); the theorems remove
the bound for the safety properties. Two signals are the one that is read and
the one that nobody reads. One token and two errors make limiters run out and the
breaker open while a second request is in flight. Two backends and two calls are
the smallest case in which one call can see another backend's certificate. In
the harness, the second run meets what the first left behind, the third what is
left after a run on an occupied port. A wait of 1.5s has room for three attempts,
two of them inside of it; the clock and `tries` stop counting at `Horizon`,
past every deadline and every number of attempts a wait allows, where more changes
no comparison. A session of three cases has a
good and a bad case on either side of one that returns early. Two patterns are one
that lets a variable through and one that does not, or does not compile. Two chat
clients are the least that can take each other's answers, and one lost connection
puts envelopes of both in front of a second handshake.

Symmetry is used in the `client_*` runs only, over backends and calls: model
values that no definition tells apart, and those runs check invariants. Two ticks
are a breaker timeout and a refill in one behaviour, that is, a full recovery.

Each property of a passing run is paired in `PROJECT.json` with a mutant of the
code's model, kept next to the definition it alters (`RouterLeft` next to
`GroupOver`, and so on), under which TLC finds the property violated.

### Fairness

`GatewayLifecycle!FairSpec`: weak fairness of every goroutine of the process
(main, the starter, the signal handler, the waiter, the router), which the Go
scheduler gives, and of an agent or a server whose context is done, which is the
contract of these libraries. Start-up steps are assumed to return. Nothing is
assumed of signals, failures or the usage reporter.

`IntegrationRunner!FairSpec`: the harness and its timers go on, a killed process
dies, a spawned goroutine runs. Nothing is assumed about when a gateway binds
its port, nor that an attempt on the ready URL ends, as `http.Get` has no timeout:
`WaitEnds` therefore says that the wait ends unless one attempt hangs for ever.

`WebSocketExample!Spec`: weak fairness of the containers' start, of the gateway, of
the backend and of each client's own steps. Nothing makes a connection drop or a
deadline pass, so `Served` is not satisfied by a timeout that always comes.

### What disagrees with the code's own words

* `lifecycle_telemetry`: `MetricsAndTraces.Close()` has no result, so the default
  register is not an `io.Closer` and the `defer` of `executor.go:198` never
  applies: the exporters are not shut down. `CloserClosedLast` shows that the
  mechanism itself is right for a register that has the signature.
* `client_stacking`: a backend with OAuth2 client credentials loses its client
  TLS, no-redirect and NTLM layers, against "stacking all the available
  middlewares" (`backend_factory.go:33`).
* `runner_ready_own`: a run that gave up on the ready URL leaves its gateway
  behind, and the next run takes the answer of that gateway for its own.
* `session_expected_error`: `Check` looks at the expected error of a case only if the
  request fails, so a case whose error did not happen passes when the answer is as
  described, although `Check` is there for "returning an error if something goes
  wrong" (`tests/integration.go:337`).
* `decisions_default_flag`: the default, empty pattern flag passes the whole
  environment of the host, although its text reserves that to ".*"
  (`tests/integration.go:45`), and a `USAGE_DISABLE` it passes overrules the one that
  the harness sets; and the opt-out inside an endpoint that `docs/websockets.md:42`
  shows is not looked at. Together they make a gateway under test report its usage.

Smaller remarks, seen while modelling and without a run of their own:

* With a ready URL the startup wait is skipped, although the comment on
  `waitForStartup` announces it for after the check (`tests/integration.go:275-277`).
* The flag calls the ready wait a maximum (`tests/integration.go:61`). The loop
  compares the deadline before it sleeps for a second and tries again, and the
  attempts themselves have no timeout, so no bound on the time is kept and none is
  claimed here; `AttemptsBounded` bounds the attempts.
* An answer whose body cannot be read is reported by the read error alone: what was
  found wrong before is dropped and the body stays open (`tests/integration.go:400`).
* The integration command leaves the gateway running when it was not ready in time
  and when a check panics; `GatewayTakenDown` says that there is no third way.
* A logstash configuration that is faulty is not reported to anybody: its error is
  overwritten by the next fallback (`executor.go:363`).

## 4. Proofs

Each `...Proofs` module proves `Spec => []IndInv` (theorem `Inductive`), where
`IndInv` is the inductive invariant of its component, and derives from it
the properties below. Most are properties of a run, so a row says for every value
of the constants what the run shows on one instance. Every proof has
the same outline: `InitIndInv`, `NextIndInv` with one step (or lemma) per action,
and a temporal step that combines them. No property listed is inductive by
itself; what has to be added is described per module.

| Module | Theorem | Statement |
|---|---|---|
| `GatewayLifecycleProofs` | `TypeCorrect` | `Spec => []TypeOK` |
| | `NoWorkerLeftBehind` | `Spec => []ExitAfterGroup` |
| | `AgentsBeforeRouter` | `Spec => []SequentialOrder` |
| | `RefusedStartsNothing` | `Spec => []RefusedConfigStartsNothing` |
| | `CancelledForACause` | `Spec => []StopHasCause` |
| | `CloserIsClosedLast` | `Spec => []CloserClosedLast` |
| | `Implements` | `Spec => ImplementsServiceGroup` |
| `RequestPipelineProofs` | `TypeCorrect` | `Spec => []TypeOK` |
| | `RefusalIsFree` | `Spec => []AuthBeforeCost` |
| | `EveryCallIsPaid` | `Spec => []CallsArePaid` |
| | `BreakerIsOutside` | `Spec => []BrokenSpendsNothing` |
| | `PreflightsAreFree` | `Spec => []PreflightPasses` |
| `BackendClientProofs` | `TypeCorrect` | `Spec => []TypeOK` |
| | `CallsPresentOwnCertificate` | `Spec => []OwnCertificate` |
| | `OnlyOAuth2DropsLayers` | `Spec => []StackedWithoutOAuth2` |
| `IntegrationRunnerProofs` | `TypeCorrect` | `Spec => []TypeOK` |
| | `LeftoversExplained` | `Spec => []LeavesOnlyWhenNotReady` |
| | `AttemptsAreBounded` | `Spec => []AttemptsBounded` |
| | `ClosedOnce` | `Spec => []ClosedIsTakenDown` |
| `HarnessSessionProofs` | `TypeCorrect` | `Spec => []TypeOK` |
| | `VerdictIsExplained` | `Spec => []OnlyErrorsMissed` |
| | `VerdictIsRight` | `Spec => [](NoErrorToMiss => CountsUnsatisfied)` |
| | `ReportIsComplete` | `Spec => []NothingHidden` |
| | `GatewayIsTakenDown` | `Spec => []GatewayTakenDown` |
| | `BodiesAreClosed` | `Spec => []BodiesClosed` |
| `PluginTestProofs` | `TypeCorrect` | `Spec => []TypeOK` |
| | `ExitCodeIsRight` | `Spec => []ExitTellsVerdict` |
| | `EveryCheckRuns` | `Spec => []NothingSkipped` |
| `StartupDecisionsProofs` | `TypeCorrect` | `Spec => []TypeOK` |
| | `QuietByDefault` | `Spec => []QuietUnderHarness` |
| `WebSocketExampleProofs` | `TypeCorrect` | `Spec => []TypeOK` |
| | `RepliesAreOwn` | `Spec => []OwnReply` |
| | `HandshakeIsHeld` | `Spec => []HandshakeHeld` |

`StackedWithoutOAuth2`, `ClosedIsTakenDown` and `NoErrorToMiss` are stated in the proof
modules and are no properties of a run, and neither is `QuietUnderHarness`. Three
of these theorems give the exact reach of a disagreement: `OnlyOAuth2DropsLayers` of
`client_stacking`, `VerdictIsExplained` with `VerdictIsRight` of
`session_expected_error`, and `QuietByDefault` of `decisions_default_flag`.

### Assumptions

The constants are sets and bounds, and the assumptions say no more than that:
bounds are natural numbers (`MaxSignalsAssumption`, `PipelineAssumption`,
`RunnerAssumption`, `CasesAssumption`, `PluginTestAssumption`,
`WebSocketAssumption`), and the records that
`HarnessSession`, `BackendClient` and `WebSocketExample` are given have the fields
and the combinations of them that the code can meet (`CasesAssumption`,
`ProfilesAssumption`, `WebSocketAssumption`). `CallsAssumption` and
`WebSocketAssumption` also keep the names of calls and clients apart from the names
the model itself uses (the default transport; the shared connection and the
frames that the gateway and the backend send for themselves).
`Endpoints` of `RequestPipeline` is not restricted at all: an endpoint may enable
any set of layers.

### GatewayLifecycle

That nobody works once
the executor returns follows from what `Wait` finds, so the invariant says what a
finished waiter implies (`WaiterInv`: its agents are over, and agents outside of
the configuration never started) and what each control point of main implies
about the goroutines spawned by then (`MainInv`). That a refused configuration
starts nothing needs the fact that main is past a step only if the step did not
fail (`ChecksInv`). `CauseInv` says who cancelled a context: the group by itself
only with a failed agent or after the router, `closeGroupCtx` only from the
router. `TelemetryInv` places the exporters on main's path.

For the refinement, `NextView` shows under `IndInv` that each action is a step of
`ServiceGroup` or leaves the view unchanged; `Invisible` collects the latter. The
invariant is needed where `MainReturns` maps to `Exit` (nobody may be at work)
and where cancelling a context maps to `RequestStop` or to nothing.

### RequestPipeline

The properties compare what a request paid with how it ended, and depend on the
order of the stacks. `Tops`, `Roles` and `Places` read that order off the stacks
once, as positions: the router's limiters (24 to 26) are below every
authentication layer (29 and up), the backend's (8) is below the breaker (9),
only tracing (43) is above CORS (42). The rest of the proof does not look into the
stacks. `OnWay` is the invariant that makes positions say something: a request on
its way in satisfied every gate it has behind it (`Crossed`), and has a token of
exactly the enabled limiters behind it. It is kept because `Below` skips no enabled layer (`BelowIsNext`); maxima and minima exist by
`GreatestNatural` and `LeastNatural`. A refusal by an authentication layer is
then free because the layer is not behind the request while all limiters are
below it (`FaultyIsOutside`), and a call is paid because every limiter is above
the sinks. Limiters and breaker, which requests share, do not appear in what is
said of a request, so a step of one request keeps what is said of the others
(`Frame`, `OneAtATime`).

### BackendClient

`CallInv` says which transport a call holds at each of its steps: a call that
is about to configure holds its own clone, one about to send a clone with its own
certificate, or the default transport if its backend has no client TLS; with
`SharedInv`, that nobody ever writes to the default transport, no interleaving of
cloning and configuring shows a certificate to the wrong backend. `ExecutorLayers`
computes the layers of `requestExecutor` for an arbitrary configuration from
lemmas about appending a layer, which is how `OnlyOAuth2DropsLayers` narrows the
disagreement that `client_stacking` shows to client credentials.

### IntegrationRunner and HarnessSession

`PresentInv` and `FutureInv` say what the run in progress has started at each point
of `NewIntegration`, and that later ones have started nothing. `ClockInv` relates
the clock to the attempts: the k-th is under way only after k-1 seconds, and a
pause after it began before the deadline, which bounds k whatever time the attempts
take. `LeavesOnlyWhenNotReady` and `ClosedIsTakenDown` split the runs that are over
by their result.

The count of `main` trails the history variable `wrong` by `missed` and by the case
in hand if `Check` will turn it down (`Accounts`), and at the end of `Check` the early
returns taken together turn down what is not satisfied and did not merely miss its
error (`Decided`, `TurnedDownIf`), for which `Report` says what has been found at each
point. `NoneIsMissed` adds that `missed` stays 0 where no spec can miss its error.

### PluginTest and StartupDecisions

`TallyInv` relates the count of failures to the cardinality of the set of bad
artifacts among those that are over, `VerdictInv` and `RanInv` the verdict and the
checks run on the artifact in hand to the checks that are still to do.

A process that was started has the environment that the harness put together
(`EnvInv`), so a value that does not disable the report can only be one of the
harness' own environment that a pattern let through.

### WebSocketExample

`HubInv` relates the two ends of the shared connection and what is in it: while the
gateway shakes hands there is exactly the handshake or exactly its answer in it,
and afterwards only envelopes one way and answers the other. `ChatInv` says that
the message of a chat client is at most once among the queue, the connection and
its inbox (`Transit`), and `DirectInv` the same of a connection of its own. Lemmas
about appending to and taking from a sequence of frames (`AppendFrame`,
`TakeFrame`) carry this through every step, a lost connection included.

### Only model-checked

* The liveness properties `SignalStops`, `AgentFailureStops`, `RouterEndStops`,
  `ToleratedFaultServes`, `WaitEnds`, `ClosedIsFreed` and `Served`: fairness and
  `ENABLED` are out of the prover's reach. `AttemptsBounded` and `ClosedIsTakenDown`
  are the safety parts of two of them.
* That the properties of the five `violation` runs do not hold: a counterexample is
  found by TLC.

## 5. Not modelled

* Bodies of library layers (JOSE validation, Lua, CEL, cache, brokers), the merge
  of several backends of an endpoint, the half-open state of the breaker: library
  code, of which this repository decides the order only.
* The health channel of the agents (`executor.go:231`): both ends are in
  libraries. The connection pools of cloned transports
  (`backend_client_tls.go:50`): their size depends on timeouts inside `net/http`.
* The mocked endpoints of the harness, and the GraphQL, SOAP, gRPC and JWT mocks of
  the examples: each answers a request from the request and a constant table. The
  gRPC stubs are generated. The streaming mock writes a fixed list of chunks with
  pauses and keeps nothing.
* The fallbacks of the default logger (`executor.go:343-386`): straight-line code on
  the configuration, of which `GatewayLifecycle` has the outcome.
* The alias table and the encoders: registrations that happen once, before
  anything else runs.
* The bodies of 404 and 405 answers, deployment files and scripts.

## 6. Plan

Done: `ServiceGroup`, `GatewayLifecycle`, `RequestPipeline` from
the server wrappers down, `BackendClient`, `IntegrationRunner`, `HarnessSession`,
`PluginTest`, `StartupDecisions`, `WebSocketExample`, and the proofs of every safety
invariant of theirs.

Next:

1. The well-founded part of `SignalStops`: after a stop was requested, no step of the
   process leads away from its end.
2. An abstract specification of a limiter that requests share, and the refinement
   of it by `RequestPipeline`.
