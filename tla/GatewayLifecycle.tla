-------------------------- MODULE GatewayLifecycle --------------------------
(***************************************************************************)
(* One run of the gateway process: main() of cmd/pucora-ce/main.go and the  *)
(* executor closure that NewCmdExecutor of executor.go returns to it.       *)
(*                                                                         *)
(* The goroutines of the process are main, the signal handler, the usage    *)
(* reporter, and, when the configuration declares async agents, the two      *)
(* members of the error group: the one that waits for the agents and the     *)
(* one that runs the router.  The agents themselves, the router's Run and    *)
(* usage.Report are library code: they appear as the executor uses them.     *)
(***************************************************************************)
EXTENDS Naturals

CONSTANTS Agents,      \* the async agents a configuration may declare
          MaxSignals   \* bound: signals delivered to the process in one run

ASSUME MaxSignalsAssumption == MaxSignals \in Nat

VARIABLES
  cfg,        \* what the configuration and the builder decide, fixed for the run
  main,       \* control point of the main goroutine
  sigs,       \* signals in the channel made with capacity 1 (main.go:32)
  handler,    \* the goroutine of main.go:37
  signals,    \* signals delivered so far
  ctxDone,    \* the root context is cancelled
  grpDone,    \* the error group cancelled its own context
  grpClosed,  \* closeGroupCtx was called
  reporter,   \* the goroutine of startReporter
  waiter,     \* the group member that waits for the agents
  router,     \* the goroutine (or, without agents, the call) that runs the router
  agent,      \* each agent, as its consumer goroutine stands
  telemetry   \* the exporters set up by MetricsAndTracesRegister

sigVars == <<sigs, handler, signals>>
ctxVars == <<ctxDone, grpDone, grpClosed>>
workVars == <<waiter, router, agent>>
sideVars == <<reporter, telemetry>>
vars == <<cfg, main, sigs, handler, signals, ctxDone, grpDone, grpClosed,
          reporter, waiter, router, agent, telemetry>>

(***************************************************************************)
(* cfg.broken names the step of the start-up that fails, or "none".  Some    *)
(* failures end the executor, others are only logged.                       *)
(* cfg.register tells whether the caller injected a metrics register whose   *)
(* Close method has the io.Closer signature, or none.                       *)
(***************************************************************************)
Refusing == {"load", "logger", "kafka", "soap", "grpc"}

Tolerated == {"none", "plugins", "metrics", "rejecter", "engine"}

Faults == Refusing \cup Tolerated

Configs == [agents: SUBSET Agents, sequential: BOOLEAN, usage: BOOLEAN,
            broken: Faults, register: {"nil", "closer"}]

MainPoints == {"boot", "load", "logger", "kafka", "soap", "report", "plugins",
               "metrics", "rejecter", "grpc", "engine", "start", "agents", "spawn",
               "wait", "direct", "return", "unwind", "cancelled", "exited"}

Init ==
  /\ cfg \in Configs
  /\ main = "boot"
  /\ sigs = 0 /\ handler = "off" /\ signals = 0
  /\ ctxDone = FALSE /\ grpDone = FALSE /\ grpClosed = FALSE
  /\ reporter = "off" /\ waiter = "off" /\ router = "off"
  /\ agent = [a \in Agents |-> "off"]
  /\ telemetry = "off"

-----------------------------------------------------------------------------
(***************************************************************************)
(* Contexts.  The group context derives from the root one and the context    *)
(* handed to agents and router derives from the group's, so it is done as    *)
(* soon as any of the three is cancelled.  Without agents the router gets    *)
(* the root context.                                                        *)
(***************************************************************************)
HasAgents == cfg.agents # {}

gctxWithoutClose == ctxDone \/ grpDone

gctxDone == ctxDone \/ grpDone \/ grpClosed

NeverDone == FALSE

RouterCtxDone == IF HasAgents THEN gctxDone ELSE ctxDone

AgentFailed == \E a \in cfg.agents : agent[a] = "failed"

Live(a) == agent[a] = "running"

AgentsOver == \A a \in cfg.agents : agent[a] \in {"stopped", "failed"}

\* The group's context is cancelled with the first error (errgroup), and by
\* nothing else that a member returns.
MembersErrorDropped == grpDone

MembersErrorAlways == TRUE

MembersError == grpDone \/ AgentFailed

\* Every member of the group has returned (errgroup's wait group is at zero).
RouterLeft == router = "done"

GroupOver == router = "done" /\ waiter = "done"

\* Start runs before the router is spawned.
NeverFirst == FALSE

AgentsFirst == cfg.sequential

\* The step of the executor that cfg.broken names returns an error.
FailsUnlessKafka(step) == cfg.broken = step /\ step # "kafka"

FailsOnAny(step) == cfg.broken # "none"

Fails(step) == cfg.broken = step

\* Every nil collaborator is replaced by this package's own.
checkCollaborators(injected) == IF injected = "nil" THEN "default" ELSE injected

\* MetricsAndTraces.Close has no result, so the default register is not an
\* io.Closer and the type assertion of executor.go:197 fails for it.
IsCloser == checkCollaborators(cfg.register) = "closer"

\* What the deferred calls do to the exporters when the executor returns.
ClosesAfterCleanRun == IsCloser /\ telemetry = "open" /\ cfg.broken \in Tolerated

ClosesTelemetry == IsCloser /\ telemetry = "open"

-----------------------------------------------------------------------------
(* main.go: signal handling *)

EnqueuedAnyway == sigs + 1

\* A send that does not block: the channel has room for one signal.
Enqueued == 1

\* The disposition of SIGINT and SIGTERM is the default one, which ends the
\* process, until signal.Notify runs; from then on a signal is a send to the
\* channel that is dropped when the channel is full.
Signal ==
  /\ main # "exited" /\ signals < MaxSignals
  /\ signals' = signals + 1
  /\ IF main = "boot"
     THEN main' = "exited" /\ UNCHANGED sigs
     ELSE sigs' = Enqueued /\ UNCHANGED main
  /\ UNCHANGED <<cfg, handler, ctxVars, workVars, sideVars>>

\* main.go:39-41
HandleSignal ==
  /\ main # "exited" /\ handler = "waiting" /\ sigs = 1
  /\ sigs' = 0
  /\ ctxDone' = TRUE
  /\ handler' = "done"
  /\ UNCHANGED <<cfg, main, signals, grpDone, grpClosed, workVars, sideVars>>

\* main.go:42
HandlerLeaves ==
  /\ main # "exited" /\ handler = "waiting" /\ ctxDone
  /\ handler' = "done"
  /\ UNCHANGED <<cfg, main, sigs, signals, ctxVars, workVars, sideVars>>

\* main.go:32-44
Notify ==
  /\ main = "boot"
  /\ main' = "load"
  /\ handler' = "waiting"
  /\ UNCHANGED <<cfg, sigs, signals, ctxVars, workVars, sideVars>>

-----------------------------------------------------------------------------
(* executor.go: the start-up sequence up to the router factory *)

\* A step that ends the executor when it fails: the command line or the parser
\* (main.go:80), the logger, the Kafka and SOAP validations, the gRPC catalog.
Check(step, next) ==
  /\ main = step
  /\ main' = IF Fails(step) THEN "return" ELSE next
  /\ UNCHANGED <<cfg, sigVars, ctxVars, workVars, sideVars>>

\* The rest of main: encoders, aliases, the parser and the commands, of which
\* the run command parses the configuration and calls the executor with it.
LoadConfig == Check("load", "logger")

\* The logger: GELF, logstash, gologging and the standard one are tried until
\* one can be made; the executor returns when none can.
NewLogger == Check("logger", "kafka")

ValidateKafka == Check("kafka", "soap")

ValidateSOAP == Check("soap", "report")

BootstrapGRPC == Check("grpc", "engine")

\* startReporter, as far as its decision: the goroutine exists when usage
\* reporting is not disabled and the configuration could be hashed.
StartReporter ==
  /\ main = "report"
  /\ main' = "plugins"
  /\ reporter' = IF cfg.usage THEN "sleeping" ELSE "off"
  /\ UNCHANGED <<cfg, sigVars, ctxVars, workVars, telemetry>>

\* A step that only logs its failures.
Logged(step, next) ==
  /\ main = step
  /\ main' = next
  /\ UNCHANGED <<cfg, sigVars, ctxVars, workVars, sideVars>>

\* The client, server and modifier plugins, each with its loader.
LoadPlugins == Logged("plugins", "metrics")

\* The global JWK cache, the service discovery and the token rejecter.
NewTokenRejecter == Logged("rejecter", "grpc")

\* The factories of the request path and the gin engine with its handlers.
NewEngine == Logged("engine", "start")

\* MetricsAndTracesRegister.Register: the OpenTelemetry exporters come up, or
\* their registration fails and is only logged.
RegisterMetrics ==
  /\ main = "metrics"
  /\ main' = "rejecter"
  /\ telemetry' = IF cfg.broken = "metrics" THEN "off" ELSE "open"
  /\ UNCHANGED <<cfg, sigVars, ctxVars, reporter, workVars>>

\* executor.go:487: the sleep does not look at the context.
ReporterWakes ==
  /\ main # "exited" /\ reporter = "sleeping"
  /\ reporter' = "reporting"
  /\ UNCHANGED <<cfg, main, sigVars, ctxVars, workVars, telemetry>>

ReporterEnds ==
  /\ main # "exited" /\ reporter = "reporting"
  /\ reporter' = "ended"
  /\ UNCHANGED <<cfg, main, sigVars, ctxVars, workVars, telemetry>>

-----------------------------------------------------------------------------
(* executor.go: starting the engines *)

\* Without agents the router runs in the calling goroutine.  With agents, a
\* sequential start calls Start before anything else is spawned, a parallel
\* one leaves it to the group member.
StartEngines ==
  /\ main = "start"
  /\ CASE ~HasAgents ->
            main' = "direct" /\ router' = "running" /\ UNCHANGED waiter
       [] HasAgents /\ AgentsFirst ->
            main' = "agents" /\ UNCHANGED <<router, waiter>>
       [] HasAgents /\ ~AgentsFirst ->
            main' = "spawn" /\ waiter' = "starting" /\ UNCHANGED router
  /\ UNCHANGED <<cfg, sigVars, ctxVars, agent, sideVars>>

\* Start is being executed, by main or by the group member.
Starting == main = "agents" \/ (main # "exited" /\ waiter = "starting")

\* Start hands an agent to the factories of executor.go:324; an agent that
\* none of them accepts is over before it ran.
StartAgent(a) ==
  /\ Starting /\ a \in cfg.agents /\ agent[a] = "off"
  /\ \E s \in {"running", "stopped"} : agent' = [agent EXCEPT ![a] = s]
  /\ UNCHANGED <<cfg, main, sigVars, ctxVars, waiter, router, sideVars>>

\* Start returns its wait function, which the group then runs.
AgentsStarted ==
  /\ Starting /\ \A a \in cfg.agents : agent[a] # "off"
  /\ waiter' = "waiting"
  /\ main' = IF main = "agents" THEN "spawn" ELSE main
  /\ UNCHANGED <<cfg, sigVars, ctxVars, router, agent, sideVars>>

\* executor.go:276
SpawnRouter ==
  /\ main = "spawn"
  /\ main' = "wait"
  /\ router' = "spawned"
  /\ UNCHANGED <<cfg, sigVars, ctxVars, waiter, agent, sideVars>>

-----------------------------------------------------------------------------
(* The agents *)

\* An agent that loses its broker for good ends its group with an error, at
\* any time, on the way down as well.
AgentFails(a) ==
  /\ main # "exited" /\ a \in cfg.agents /\ Live(a)
  /\ agent' = [agent EXCEPT ![a] = "failed"]
  /\ UNCHANGED <<cfg, main, sigVars, ctxVars, waiter, router, sideVars>>

\* An agent leaves when the context it got is done, or when a fellow agent's
\* error cancelled the context the agents share.
AgentStops(a) ==
  /\ main # "exited" /\ a \in cfg.agents /\ Live(a)
  /\ gctxDone \/ AgentFailed
  /\ agent' = [agent EXCEPT ![a] = "stopped"]
  /\ UNCHANGED <<cfg, main, sigVars, ctxVars, waiter, router, sideVars>>

\* The wait function returns: the group cancels its context on an error only.
WaiterEnds ==
  /\ main # "exited" /\ waiter = "waiting" /\ AgentsOver
  /\ waiter' = "done"
  /\ grpDone' = MembersError
  /\ UNCHANGED <<cfg, main, sigVars, ctxDone, grpClosed, router, agent, sideVars>>

-----------------------------------------------------------------------------
(* The router *)

RouterRuns ==
  /\ main # "exited" /\ router = "spawned"
  /\ router' = "running"
  /\ UNCHANGED <<cfg, main, sigVars, ctxVars, waiter, agent, sideVars>>

\* Run gives up on its own, when it cannot build or bind the server.
RouterFails ==
  /\ main # "exited" /\ router = "running"
  /\ router' = "returned"
  /\ UNCHANGED <<cfg, main, sigVars, ctxVars, waiter, agent, sideVars>>

\* Run ends the server because the context it was given is done.
RouterStops ==
  /\ RouterCtxDone
  /\ RouterFails

\* executor.go:279-280
RouterLeaves ==
  /\ main # "exited" /\ HasAgents /\ router = "returned"
  /\ grpClosed' = TRUE
  /\ router' = "done"
  /\ UNCHANGED <<cfg, main, sigVars, ctxDone, grpDone, waiter, agent, sideVars>>

-----------------------------------------------------------------------------
(* Leaving *)

\* executor.go:259-260
DirectReturns ==
  /\ main = "direct" /\ router = "returned"
  /\ main' = "return"
  /\ router' = "done"
  /\ UNCHANGED <<cfg, sigVars, ctxVars, waiter, agent, sideVars>>

\* executor.go:283: Wait returns when every member has, and cancels the group.
Wait ==
  /\ main = "wait" /\ GroupOver
  /\ main' = "return"
  /\ grpDone' = TRUE
  /\ UNCHANGED <<cfg, sigVars, ctxDone, grpClosed, workVars, sideVars>>

\* The executor returns and runs what it deferred at executor.go:198.
ExecutorReturns ==
  /\ main = "return"
  /\ main' = "unwind"
  /\ telemetry' = IF ClosesTelemetry THEN "closed" ELSE telemetry
  /\ UNCHANGED <<cfg, sigVars, ctxVars, reporter, workVars>>

\* main returns: the deferred cancel runs, which lets the handler go.
MainCancels ==
  /\ main = "unwind"
  /\ main' = "cancelled"
  /\ ctxDone' = TRUE
  /\ UNCHANGED <<cfg, sigVars, grpDone, grpClosed, workVars, sideVars>>

\* The process ends with whatever goroutines are left.
MainReturns ==
  /\ main = "cancelled"
  /\ main' = "exited"
  /\ UNCHANGED <<cfg, sigVars, ctxVars, workVars, sideVars>>

\* The process is gone.
Exited == main = "exited" /\ UNCHANGED vars

-----------------------------------------------------------------------------
StartUp ==
  \/ Notify \/ LoadConfig \/ NewLogger \/ ValidateKafka \/ ValidateSOAP
  \/ StartReporter \/ LoadPlugins \/ RegisterMetrics \/ NewTokenRejecter
  \/ BootstrapGRPC \/ NewEngine

MainStep ==
  \/ StartUp \/ StartEngines \/ SpawnRouter
  \/ DirectReturns \/ Wait \/ ExecutorReturns \/ MainCancels \/ MainReturns

StarterStep == AgentsStarted \/ \E a \in Agents : StartAgent(a)

HandlerStep == HandleSignal \/ HandlerLeaves

RouterStep == RouterRuns \/ RouterStops \/ RouterLeaves

ReporterStep == ReporterWakes \/ ReporterEnds

AgentStep(a) == AgentStops(a) \/ AgentFails(a)

Next ==
  \/ Signal \/ HandlerStep
  \/ MainStep \/ StarterStep
  \/ ReporterStep
  \/ RouterStep \/ RouterFails
  \/ WaiterEnds
  \/ \E a \in Agents : AgentStep(a)
  \/ Exited

(***************************************************************************)
(* Fairness: every goroutine that can run is scheduled; an agent or a server *)
(* whose context is done leaves.  Nothing is assumed of signals, of failures *)
(* or of the usage reporter.                                                *)
(***************************************************************************)
Fairness ==
  /\ WF_vars(MainStep)
  /\ WF_vars(StarterStep)
  /\ WF_vars(HandlerStep)
  /\ WF_vars(RouterStep)
  /\ WF_vars(WaiterEnds)
  /\ \A a \in Agents : WF_vars(AgentStops(a))

Spec == Init /\ [][Next]_vars

FairSpec == Spec /\ Fairness

-----------------------------------------------------------------------------
(* Properties *)

\* The values each piece of the process state can take.
TypeOK ==
  /\ cfg \in Configs
  /\ main \in MainPoints
  /\ sigs \in 0..1 /\ signals \in 0..MaxSignals
  /\ handler \in {"off", "waiting", "done"}
  /\ ctxDone \in BOOLEAN /\ grpDone \in BOOLEAN /\ grpClosed \in BOOLEAN
  /\ reporter \in {"off", "sleeping", "reporting", "ended"}
  /\ waiter \in {"off", "starting", "waiting", "done"}
  /\ router \in {"off", "spawned", "running", "returned", "done"}
  /\ agent \in [Agents -> {"off", "running", "stopped", "failed"}]
  /\ telemetry \in {"off", "open", "closed"}

\* Nothing the executor started is at work: no agent consumes, the router does
\* not serve, nobody waits for the agents.
Quiet ==
  /\ \A a \in Agents : ~Live(a)
  /\ router \in {"off", "done"}
  /\ waiter \in {"off", "done"}

\* Once the executor is on its way out, by whatever path, no agent it started
\* is still consuming and no router still serving: the process never ends
\* under a message or a request that is being handled (executor.go:259-285).
ExitAfterGroup ==
  main \in {"return", "unwind", "cancelled", "exited"} => Quiet

\* With a sequential start the router, and with it the traffic, begins only
\* after every agent was handed to its factory (executor.go:267-281).
SequentialOrder ==
  cfg.sequential /\ router # "off" => \A a \in cfg.agents : agent[a] # "off"

\* A configuration that a start-up step refuses never gets as far as an agent
\* or a router, whatever signals arrive meanwhile (executor.go:168-219).
RefusedConfigStartsNothing ==
  cfg.broken \in Refusing => router = "off" /\ \A a \in Agents : agent[a] = "off"

\* The contexts are cancelled for a reason: the root one by a signal or by the
\* end of main, the group's by the root, by an agent's error or by the end of
\* the router.  Agents that finish without an error leave the router serving
\* (executor.go:264-285, main.go:37-44).
StopHasCause ==
  /\ ctxDone => signals > 0 \/ main \in {"cancelled", "exited"}
  /\ grpDone \/ grpClosed => AgentFailed \/ router = "done"

\* An injected register that is an io.Closer is closed on every return path
\* after its registration, and only when nothing that reports to it is left
\* (executor.go:196-199).
CloserClosedLast ==
  IsCloser => /\ telemetry = "closed" => Quiet
              /\ main = "exited" => telemetry # "open"

\* A failure that is only logged, of the plugins, the telemetry, the token
\* rejecter or the engine, does not keep the gateway from running its router, and neither
\* does a signal that arrives meanwhile (executor.go:186-213).
ToleratedFaultServes ==
  main = "load" /\ cfg.broken \in Tolerated ~> router # "off"

\* A signal caught by the process ends it, whatever the start-up was doing and
\* even if it is the second one, which nobody reads (main.go:32-44).
SignalStops == sigs = 1 ~> main = "exited"

\* An agent that gives up takes the router and the process down
\* (executor.go:263-285).
AgentFailureStops == AgentFailed ~> main = "exited"

\* A router that ends, for its own reasons too, takes the agents and the
\* process down: closeGroupCtx reaches every agent (executor.go:276-281).
RouterEndStops == router = "returned" ~> main = "exited"

-----------------------------------------------------------------------------
\* The abstract view of the process.
lifeView == IF main = "exited" THEN "down" ELSE "up"

stoppingView ==
  main = "exited" \/ gctxDone \/ AgentFailed \/ router \in {"returned", "done"}

serverView ==
  CASE router \in {"off", "spawned"} -> "idle"
    [] router = "running" -> "live"
    [] router \in {"returned", "done"} -> "gone"

helperView ==
  [a \in Agents |-> CASE agent[a] = "off" -> "idle"
                      [] agent[a] = "running" -> "live"
                      [] agent[a] \in {"stopped", "failed"} -> "gone"]

Group == INSTANCE ServiceGroup
           WITH Helpers <- Agents, life <- lifeView, stopping <- stoppingView,
                server <- serverView, helper <- helperView

\* The goroutines, contexts and channels of the executor implement the
\* supervised group: the process ends only after the server and every helper,
\* nobody starts afterwards, and whoever ends first stops the others
\* (executor.go:255-285).
ImplementsServiceGroup == Group!Spec

\* What the type assertion of executor.go:197 is there for: the exporters that
\* Register set up are shut down before the process ends.
TelemetryClosed == main = "exited" => telemetry # "open"
=============================================================================
