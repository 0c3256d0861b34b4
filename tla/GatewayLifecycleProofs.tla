----------------------- MODULE GatewayLifecycleProofs -----------------------
(***************************************************************************)
(* Proofs about GatewayLifecycle, for every set of agents and every bound on  *)
(* the number of signals.                                                   *)
(***************************************************************************)
EXTENDS GatewayLifecycle, TLAPS

-----------------------------------------------------------------------------
(* The inductive invariant: what each control point of main implies about the
   goroutines, in parts. *)

Early == {"boot", "load", "logger", "kafka", "soap", "report", "plugins",
          "metrics", "rejecter", "grpc", "engine", "start"}

Leaving == {"return", "unwind", "cancelled", "exited"}

NothingStarted ==
  /\ router = "off" /\ waiter = "off"
  /\ \A a \in Agents : agent[a] = "off"

\* Where main stands and what it has spawned by then.
MainInv ==
  /\ main \in Early => NothingStarted
  /\ main = "agents" => HasAgents /\ cfg.sequential
                         /\ router = "off" /\ waiter = "off"
  /\ main = "spawn" => HasAgents /\ router = "off" /\ waiter # "off"
  /\ main = "wait" => HasAgents /\ router # "off" /\ waiter # "off"
  /\ main = "direct" => ~HasAgents /\ router \in {"running", "returned"}
                         /\ waiter = "off"
  /\ main \in Leaving => Quiet

\* The waiting goroutine and the agents it waits for.
WaiterInv ==
  /\ waiter # "off" => HasAgents
  /\ HasAgents /\ router # "off" => waiter # "off"
  /\ waiter = "starting" => ~cfg.sequential
  /\ waiter \in {"waiting", "done"} => \A a \in cfg.agents : agent[a] # "off"
  /\ waiter = "done" => AgentsOver
  /\ \A a \in Agents \ cfg.agents : agent[a] = "off"

\* A step behind main did not fail.
ChecksInv ==
  /\ main \in {"boot", "load"} \/ main \in Leaving \/ cfg.broken # "load"
  /\ main \in {"boot", "load", "logger"} \/ main \in Leaving \/ cfg.broken # "logger"
  /\ main \in {"boot", "load", "logger", "kafka"} \/ main \in Leaving
       \/ cfg.broken # "kafka"
  /\ main \in {"boot", "load", "logger", "kafka", "soap"} \/ main \in Leaving
       \/ cfg.broken # "soap"
  /\ main \in Early \ {"engine", "start"} \/ main \in Leaving \/ cfg.broken # "grpc"
  /\ main \in Leaving /\ cfg.broken \in Refusing => NothingStarted

\* Who cancelled a context.
CauseInv ==
  /\ sigs = 1 => signals > 0
  /\ ctxDone => signals > 0 \/ main \in {"cancelled", "exited"}
  /\ grpDone => AgentFailed \/ router = "done"
  /\ grpClosed => router = "done"

\* When the exporters are up, and closed.
TelemetryInv ==
  /\ main \in Early \ {"rejecter", "grpc", "engine", "start"} => telemetry = "off"
  /\ telemetry = "closed" => main \in {"unwind", "cancelled", "exited"}
  /\ IsCloser /\ main \in {"unwind", "cancelled", "exited"} => telemetry # "open"

\* The invariant that every step of the process preserves, and that implies
\* its safety properties (executor.go:162-287, main.go:31-81).
IndInv ==
  /\ TypeOK /\ MainInv /\ WaiterInv /\ ChecksInv /\ CauseInv /\ TelemetryInv

-----------------------------------------------------------------------------
\* The first state of the process satisfies the inductive invariant.
LEMMA InitIndInv == Init => IndInv
<1> SUFFICES ASSUME Init PROVE IndInv
  OBVIOUS
<1> USE DEF Init, Early, Leaving, IsCloser
<1>1. TypeOK
  <2>1. sigs \in 0..1 /\ signals \in 0..MaxSignals
    BY MaxSignalsAssumption
  <2>2. ctxDone \in BOOLEAN /\ grpDone \in BOOLEAN /\ grpClosed \in BOOLEAN
    OBVIOUS
  <2>3. agent \in [Agents -> {"off", "running", "stopped", "failed"}]
    OBVIOUS
  <2> QED
    BY <2>1, <2>2, <2>3 DEF TypeOK, MainPoints
<1>2. MainInv /\ WaiterInv
  BY DEF MainInv, WaiterInv, NothingStarted, Quiet, Live
<1>3. ChecksInv /\ CauseInv /\ TelemetryInv
  BY DEF ChecksInv, CauseInv, TelemetryInv
<1> QED
  BY <1>1, <1>2, <1>3 DEF IndInv

\* Every step of the process, main's and the goroutines', preserves it.
LEMMA NextIndInv == IndInv /\ [Next]_vars => IndInv'
<1> SUFFICES ASSUME IndInv, [Next]_vars PROVE IndInv'
  OBVIOUS
<1> USE MaxSignalsAssumption
    DEF IndInv, TypeOK, MainInv, WaiterInv, ChecksInv, CauseInv, TelemetryInv,
        NothingStarted, Quiet, Live, MainPoints, Configs, Early, Leaving,
        HasAgents, AgentsOver, AgentFailed, IsCloser, Faults, Refusing,
        Tolerated, sigVars, ctxVars, workVars, sideVars
<1>1. CASE Signal
  BY <1>1 DEF Signal, Enqueued
<1>2. CASE HandleSignal
  BY <1>2 DEF HandleSignal
<1>3. CASE HandlerLeaves
  BY <1>3 DEF HandlerLeaves
<1>4. CASE Notify
  BY <1>4 DEF Notify
<1>5. CASE LoadConfig
  BY <1>5 DEF LoadConfig, Check, Fails
<1>6. CASE NewLogger
  BY <1>6 DEF NewLogger, Check, Fails
<1>7. CASE ValidateKafka
  BY <1>7 DEF ValidateKafka, Check, Fails
<1>8. CASE ValidateSOAP
  BY <1>8 DEF ValidateSOAP, Check, Fails
<1>9. CASE StartReporter
  BY <1>9 DEF StartReporter
<1>10. CASE RegisterMetrics
  BY <1>10 DEF RegisterMetrics
<1>29. CASE LoadPlugins \/ NewTokenRejecter
  BY <1>29 DEF LoadPlugins, NewTokenRejecter, Logged
<1>31. CASE NewEngine
  BY <1>31 DEF NewEngine, Logged
<1>11. CASE BootstrapGRPC
  BY <1>11 DEF BootstrapGRPC, Check, Fails
<1>12. CASE StartEngines
  <2> USE <1>12 DEF StartEngines, AgentsFirst
  <2>1. CASE ~HasAgents
    <3>1. main' = "direct" /\ router' = "running" /\ waiter' = waiter
      BY <2>1
    <3>2. TypeOK' /\ ChecksInv' /\ CauseInv' /\ TelemetryInv'
      BY <3>1
    <3>3. MainInv' /\ WaiterInv'
      BY <2>1, <3>1
    <3> QED
      BY <3>2, <3>3
  <2>2. CASE HasAgents /\ cfg.sequential
    <3>1. main' = "agents" /\ router' = router /\ waiter' = waiter
      BY <2>2
    <3>2. TypeOK' /\ ChecksInv' /\ CauseInv' /\ TelemetryInv'
      BY <3>1
    <3>3. MainInv' /\ WaiterInv'
      BY <2>2, <3>1
    <3> QED
      BY <3>2, <3>3
  <2>3. CASE HasAgents /\ ~cfg.sequential
    <3>1. main' = "spawn" /\ router' = router /\ waiter' = "starting"
      BY <2>3
    <3>2. TypeOK' /\ ChecksInv' /\ CauseInv' /\ TelemetryInv'
      BY <3>1
    <3>3. MainInv' /\ WaiterInv'
      BY <2>3, <3>1
    <3> QED
      BY <3>2, <3>3
  <2> QED
    BY <2>1, <2>2, <2>3
<1>13. CASE SpawnRouter
  BY <1>13 DEF SpawnRouter
<1>14. CASE DirectReturns
  <2> USE <1>14 DEF DirectReturns
  <2>1. \A a \in Agents : agent[a] \in {"off", "stopped", "failed"}
    OBVIOUS
  <2>2. TypeOK' /\ WaiterInv' /\ TelemetryInv'
    OBVIOUS
  <2>3. MainInv'
    BY <2>1
  <2>4. ChecksInv' /\ CauseInv'
    OBVIOUS
  <2> QED
    BY <2>2, <2>3, <2>4
<1>15. CASE Wait
  <2> USE <1>15 DEF Wait, GroupOver
  <2>1. \A a \in Agents : agent[a] \in {"off", "stopped", "failed"}
    OBVIOUS
  <2>2. TypeOK' /\ WaiterInv' /\ TelemetryInv'
    OBVIOUS
  <2>3. MainInv'
    BY <2>1
  <2>4. ChecksInv' /\ CauseInv'
    OBVIOUS
  <2> QED
    BY <2>2, <2>3, <2>4
<1>16. CASE ExecutorReturns
  BY <1>16 DEF ExecutorReturns, ClosesTelemetry
<1>17. CASE MainReturns
  BY <1>17 DEF MainReturns
<1>30. CASE MainCancels
  BY <1>30 DEF MainCancels
<1>18. CASE AgentsStarted
  BY <1>18 DEF AgentsStarted, Starting
<1>19. CASE ReporterWakes
  BY <1>19 DEF ReporterWakes
<1>20. CASE ReporterEnds
  BY <1>20 DEF ReporterEnds
<1>21. CASE RouterRuns
  BY <1>21 DEF RouterRuns
<1>22. CASE RouterFails
  BY <1>22 DEF RouterFails
<1>23. CASE RouterLeaves
  BY <1>23 DEF RouterLeaves
<1>24. CASE WaiterEnds
  BY <1>24 DEF WaiterEnds, MembersError
<1>25. ASSUME NEW a \in Agents, StartAgent(a) PROVE IndInv'
  BY <1>25 DEF StartAgent, Starting
<1>26. ASSUME NEW a \in Agents, AgentStops(a) PROVE IndInv'
  BY <1>26 DEF AgentStops, gctxDone
<1>27. ASSUME NEW a \in Agents, AgentFails(a) PROVE IndInv'
  BY <1>27 DEF AgentFails
<1>28. CASE UNCHANGED vars
  BY <1>28 DEF vars
<1> QED
  BY <1>1, <1>2, <1>3, <1>4, <1>5, <1>6, <1>7, <1>8, <1>9, <1>10, <1>11, <1>12, <1>13, <1>14, <1>15, <1>16, <1>17, <1>18, <1>19, <1>20, <1>21, <1>22, <1>23, <1>24, <1>25, <1>26, <1>27, <1>28,
     <1>29, <1>30, <1>31
  DEF Next, HandlerStep, MainStep, StartUp, StarterStep, ReporterStep,
      RouterStep, RouterStops, AgentStep, Exited

-----------------------------------------------------------------------------
\* The inductive invariant holds throughout.
THEOREM Inductive == Spec => []IndInv
  BY InitIndInv, NextIndInv, PTL DEF Spec

\* Type correctness of the process state.
THEOREM TypeCorrect == Spec => []TypeOK
<1>1. IndInv => TypeOK
  BY DEF IndInv
<1> QED
  BY <1>1, Inductive, PTL

\* The executor never leaves an agent or a router at work behind it.
THEOREM NoWorkerLeftBehind == Spec => []ExitAfterGroup
<1>1. IndInv => ExitAfterGroup
  BY DEF IndInv, MainInv, ExitAfterGroup, Leaving
<1> QED
  BY <1>1, Inductive, PTL

\* A sequential start hands over every agent before the router exists.
THEOREM AgentsBeforeRouter == Spec => []SequentialOrder
<1>1. IndInv => SequentialOrder
  <2> SUFFICES ASSUME IndInv, cfg.sequential, router # "off",
                      NEW a \in cfg.agents
               PROVE  agent[a] # "off"
    BY DEF SequentialOrder
  <2> USE DEF IndInv
  <2>1. HasAgents
    BY DEF HasAgents
  <2>2. CASE main \in Leaving
    <3>1. router = "done"
      BY <2>2 DEF MainInv, Quiet
    <3>2. waiter # "off"
      BY <2>1, <2>2, <3>1 DEF WaiterInv
    <3> QED
      BY <2>2, <3>2 DEF MainInv, Quiet, WaiterInv
  <2>3. CASE main \notin Leaving
    <3>1. main = "wait"
      BY <2>1, <2>3 DEF TypeOK, MainPoints, MainInv, NothingStarted, Early, Leaving
    <3>2. waiter \in {"waiting", "done"}
      BY <3>1 DEF TypeOK, MainInv, WaiterInv
    <3> QED
      BY <3>2 DEF WaiterInv
  <2> QED
    BY <2>2, <2>3
<1> QED
  BY <1>1, Inductive, PTL

\* A refused configuration starts neither agents nor router.
THEOREM RefusedStartsNothing == Spec => []RefusedConfigStartsNothing
<1>1. IndInv => RefusedConfigStartsNothing
  BY DEF IndInv, TypeOK, Configs, Faults, Refusing, MainPoints, MainInv, ChecksInv,
         NothingStarted, Early, Leaving, RefusedConfigStartsNothing
<1> QED
  BY <1>1, Inductive, PTL

\* No context is cancelled without a cause.
THEOREM CancelledForACause == Spec => []StopHasCause
<1>1. IndInv => StopHasCause
  BY DEF IndInv, CauseInv, StopHasCause
<1> QED
  BY <1>1, Inductive, PTL

\* An io.Closer register is closed, and closed last.
THEOREM CloserIsClosedLast == Spec => []CloserClosedLast
<1>1. IndInv => CloserClosedLast
  BY DEF IndInv, MainInv, TelemetryInv, Leaving, CloserClosedLast
<1> QED
  BY <1>1, Inductive, PTL

-----------------------------------------------------------------------------
(* The executor implements the supervised group. *)

\* The first state of the process is a first state of the group.
LEMMA InitView == Init => Group!Init
<1> SUFFICES ASSUME Init PROVE Group!Init
  OBVIOUS
<1>1. lifeView = "up" /\ serverView = "idle"
  BY DEF Init, lifeView, serverView
<1>2. stoppingView = FALSE
  <2>1. ~AgentFailed
    BY DEF Init, Configs, AgentFailed
  <2> QED
    BY <2>1 DEF Init, stoppingView, gctxDone
<1>3. helperView = [h \in Agents |-> "idle"]
  BY DEF Init, helperView
<1> QED
  BY <1>1, <1>2, <1>3 DEF Group!Init

\* A step that changes no context, agent or router, and does not end the
\* process, is invisible in the group.
LEMMA Invisible ==
  ASSUME UNCHANGED <<cfg, ctxDone, grpDone, grpClosed, router, agent>>,
         main # "exited", main' # "exited"
  PROVE  UNCHANGED Group!vars
  BY DEF Group!vars, lifeView, stoppingView, serverView, helperView, gctxDone,
         AgentFailed

\* A step of the process is a step of the group or changes nothing in it.
LEMMA NextView == IndInv /\ [Next]_vars => [Group!Next]_(Group!vars)
<1> SUFFICES ASSUME IndInv, Next PROVE Group!Next \/ UNCHANGED Group!vars
  <2>1. ASSUME UNCHANGED vars PROVE UNCHANGED Group!vars
    <3> USE <2>1 DEF vars
    <3>1. lifeView' = lifeView /\ serverView' = serverView
      BY DEF lifeView, serverView
    <3>2. stoppingView' = stoppingView
      BY DEF stoppingView, gctxDone, AgentFailed
    <3>3. helperView' = helperView
      BY DEF helperView
    <3> QED
      BY <3>1, <3>2, <3>3 DEF Group!vars
  <2> QED
    BY <2>1
<1> USE DEF IndInv, sigVars, ctxVars, workVars, sideVars
<1>1. CASE Signal
  <2>1. CASE main = "boot"
    BY <1>1, <2>1 DEF Signal, MainInv, NothingStarted, Early, Group!Next, Group!Exit,
       lifeView, stoppingView, serverView, helperView
  <2>2. CASE main # "boot"
    BY <1>1, <2>2, Invisible DEF Signal
  <2> QED
    BY <2>1, <2>2
<1>2. CASE HandleSignal
  <2>1. Group!RequestStop
    BY <1>2 DEF HandleSignal, Group!RequestStop, lifeView, stoppingView,
       serverView, helperView, gctxDone
  <2> QED
    BY <2>1 DEF Group!Next
<1>3. CASE HandlerLeaves \/ Notify \/ StartReporter \/ RegisterMetrics
           \/ LoadPlugins \/ NewTokenRejecter \/ NewEngine
           \/ ExecutorReturns \/ ReporterStep
  BY <1>3, Invisible DEF HandlerLeaves, Notify, StartReporter, RegisterMetrics,
     LoadPlugins, NewTokenRejecter, NewEngine, Logged, ExecutorReturns, ReporterStep, ReporterWakes, ReporterEnds
<1>4. CASE \/ LoadConfig \/ NewLogger \/ ValidateKafka \/ ValidateSOAP
           \/ BootstrapGRPC
  BY <1>4, Invisible DEF LoadConfig, NewLogger, ValidateKafka, ValidateSOAP,
     BootstrapGRPC, Check
<1>5. CASE StartEngines
  <2>1. CASE ~HasAgents
    <3>1. Group!StartServer
      BY <1>5, <2>1 DEF StartEngines, MainInv, NothingStarted, Early, Group!StartServer,
         lifeView, stoppingView, serverView, helperView, gctxDone, AgentFailed
    <3> QED
      BY <3>1 DEF Group!Next
  <2>2. CASE HasAgents
    BY <1>5, <2>2, Invisible DEF StartEngines
  <2> QED
    BY <2>1, <2>2
<1>6. CASE SpawnRouter
  BY <1>6 DEF SpawnRouter, MainInv, Group!vars, lifeView, stoppingView, serverView,
     helperView, gctxDone, AgentFailed
<1>7. CASE DirectReturns \/ Wait \/ RouterLeaves
  <2> USE <1>7 DEF DirectReturns, Wait, GroupOver, RouterLeaves
  <2>1. lifeView' = lifeView /\ serverView' = serverView
    BY DEF lifeView, serverView
  <2>2. stoppingView /\ stoppingView'
    BY DEF stoppingView
  <2>3. stoppingView' = stoppingView
    BY <2>2 DEF stoppingView
  <2>4. agent' = agent
    OBVIOUS
  <2>5. helperView' = helperView
    BY ONLY <2>4 DEF helperView
  <2> QED
    BY <2>1, <2>3, <2>5 DEF Group!vars
<1>8. CASE MainReturns
  <2>1. Group!Exit
    BY <1>8 DEF MainReturns, MainInv, Leaving, Quiet, Live, TypeOK, Group!Exit, lifeView,
       stoppingView, serverView, helperView
  <2> QED
    BY <2>1 DEF Group!Next
<1>16. CASE MainCancels
  <2>1. Group!RequestStop
    BY <1>16 DEF MainCancels, Group!RequestStop, lifeView, stoppingView,
       serverView, helperView, gctxDone
  <2> QED
    BY <2>1 DEF Group!Next
<1>9. CASE AgentsStarted
  BY <1>9, Invisible DEF AgentsStarted, Starting
<1>10. CASE RouterRuns
  <2>1. Group!StartServer
    BY <1>10 DEF RouterRuns, Group!StartServer, lifeView, stoppingView,
       serverView, helperView, gctxDone, AgentFailed
  <2> QED
    BY <2>1 DEF Group!Next
<1>11. CASE RouterFails
  <2>1. Group!EndServer
    BY <1>11 DEF RouterFails, Group!EndServer, lifeView, stoppingView,
       serverView, helperView, gctxDone, AgentFailed
  <2> QED
    BY <2>1 DEF Group!Next
<1>12. CASE WaiterEnds
  <2> USE <1>12 DEF WaiterEnds, MembersError
  <2>1. lifeView' = lifeView /\ serverView' = serverView
    BY DEF lifeView, serverView
  <2>2. AgentFailed' = AgentFailed
    BY DEF AgentFailed
  <2>3. stoppingView' = stoppingView
    BY <2>2 DEF stoppingView, gctxDone, TypeOK
  <2>4. helperView' = helperView
    BY DEF helperView
  <2> QED
    BY <2>1, <2>3, <2>4 DEF Group!vars
<1>13. ASSUME NEW a \in Agents, StartAgent(a)
       PROVE  Group!StartHelper(a)
  <2> USE <1>13 DEF StartAgent, Starting, TypeOK
  <2>1. PICK s \in {"running", "stopped"} : agent' = [agent EXCEPT ![a] = s]
    OBVIOUS
  <2>2. lifeView = "up" /\ lifeView' = lifeView /\ serverView' = serverView
    BY DEF lifeView, serverView
  <2>3. AgentFailed' = AgentFailed
    BY <2>1 DEF AgentFailed
  <2>4. stoppingView' = stoppingView
    BY <2>3 DEF stoppingView, gctxDone
  <2>5. helperView[a] = "idle"
    BY DEF helperView
  <2>6. helperView' = [helperView EXCEPT ![a] = IF s = "running" THEN "live" ELSE "gone"]
    BY <2>1 DEF helperView
  <2> QED
    BY <2>2, <2>4, <2>5, <2>6 DEF Group!StartHelper
<1>14. ASSUME NEW a \in Agents, AgentStops(a) \/ AgentFails(a)
       PROVE  Group!EndHelper(a)
  <2> USE <1>14 DEF AgentStops, AgentFails, Live, TypeOK
  <2>1. PICK s \in {"stopped", "failed"} : agent' = [agent EXCEPT ![a] = s]
    OBVIOUS
  <2>2. lifeView = "up" /\ lifeView' = lifeView /\ serverView' = serverView
    BY DEF lifeView, serverView
  <2>3. AgentFailed => AgentFailed'
    BY <2>1 DEF AgentFailed, Configs
  <2>4. stoppingView'
    <3>1. CASE AgentStops(a)
      BY <2>3, <3>1 DEF stoppingView, gctxDone
    <3>2. CASE AgentFails(a)
      BY <3>2 DEF stoppingView, AgentFailed, Configs
    <3> QED
      BY <3>1, <3>2
  <2>5. helperView[a] = "live"
    BY DEF helperView
  <2>6. helperView' = [helperView EXCEPT ![a] = "gone"]
    BY <2>1 DEF helperView
  <2>7. stoppingView' = TRUE
    BY <2>4 DEF stoppingView
  <2> QED
    BY <2>2, <2>5, <2>6, <2>7 DEF Group!EndHelper
<1>15. CASE Exited
  BY <1>15 DEF Exited, vars, Group!vars, lifeView, stoppingView, serverView,
     helperView, gctxDone, AgentFailed
<1> QED
  BY <1>1, <1>2, <1>3, <1>4, <1>5, <1>6, <1>7, <1>8, <1>9, <1>10, <1>11,
     <1>12, <1>13, <1>14, <1>15, <1>16
  DEF Next, HandlerStep, MainStep, StartUp, StarterStep, RouterStep,
      RouterStops, AgentStep, Group!Next

\* The process implements the supervised group.
THEOREM Implements == Spec => ImplementsServiceGroup
  BY InitView, NextView, Inductive, PTL DEF Spec, ImplementsServiceGroup, Group!Spec
=============================================================================
