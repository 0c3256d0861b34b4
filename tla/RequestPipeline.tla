--------------------------- MODULE RequestPipeline ---------------------------
(***************************************************************************)
(* The life of a request inside the gateway: the layers that                *)
(* handler_factory.go, proxy_factory.go and backend_factory.go wrap around   *)
(* each other, the budgets and the breaker that concurrent requests share,   *)
(* and the three ways in (HTTP router, gRPC server, async agents).           *)
(*                                                                         *)
(* What a layer does is library code, modelled by its role; which layer      *)
(* wraps which is this repository's.  The stacks are written as the source    *)
(* builds them: each layer wraps the ones before it, so a request walks them  *)
(* from the last to the first and its answer walks back.                     *)
(***************************************************************************)
EXTENDS Naturals, Sequences, FiniteSetsExt

CONSTANTS Requests,   \* requests that may be in the gateway at the same time
          Endpoints,  \* configurations of an endpoint: the layers it enables
          Burst,      \* tokens of each limiter after a refill
          MaxErrors,  \* consecutive errors that open the breaker
          MaxTicks    \* bound: refills and breaker timeouts in one behaviour

ASSUME PipelineAssumption ==
  /\ Burst \in Nat \ {0} /\ MaxErrors \in Nat \ {0} /\ MaxTicks \in Nat

\* handler_factory.go:46-59 and executor.go:234
HandlerStackLimitFirst ==
  << "h.lua", "ws", "apikeys", "basicauth", "jose", "h.ratelimit", "h.redis",
     "h.tiered", "policies", "mwplugin", "h.metrics", "h.opencensus",
     "botdetector", "h.otel" >>

HandlerStack ==
  << "h.ratelimit", "h.redis", "h.tiered", "h.lua", "ws", "apikeys",
     "basicauth", "jose", "policies", "mwplugin", "h.metrics",
     "h.opencensus", "botdetector", "h.otel" >>

\* proxy_factory.go:22-32 and executor.go:229
ProxyStack ==
  << "shadow", "jsonschema", "jsonschemaresp", "p.cel", "p.lua",
     "requestbody", "responsebody", "jmespath", "p.metrics", "p.opencensus",
     "p.otel" >>

\* backend_factory.go:76-89; the martian backend at the bottom is position 0.
BackendStackLimitOutside ==
  << "pubsub", "amqp", "lambda", "soap", "grpc", "b.cel", "b.lua", "cb",
     "b.ratelimit", "b.metrics", "b.opencensus", "b.otel" >>

BackendStack ==
  << "pubsub", "amqp", "lambda", "soap", "grpc", "b.cel", "b.lua",
     "b.ratelimit", "cb", "b.metrics", "b.opencensus", "b.otel" >>

\* router_engine.go:37-46: what the engine runs before any endpoint, the first
\* one registered last.
EngineStack == << "e.botdetector", "e.lua", "e.httpsecure" >>

ServerStackCorsInside == << "cors", "s.plugin", "s.otel" >>

\* executor.go:236-239 and 332-337: a RunServer wraps the handler it is given and
\* hands it to the next, so the one made first, next to the listener, is the
\* outermost.  gRPC calls leave the way of HTTP requests outside of "cors".
ServerStack == << "s.plugin", "cors", "s.otel" >>

Chain == BackendStack \o ProxyStack \o HandlerStack \o EngineStack \o ServerStack

Top(entry) == IF entry = "pipe" THEN Len(BackendStack) + Len(ProxyStack)
              ELSE Len(Chain)

(***************************************************************************)
(* Roles.  A layer without a role lets everything through.                   *)
(***************************************************************************)
AuthLayers == {"e.botdetector", "botdetector", "policies", "jose", "basicauth", "apikeys"}

RequestGates == AuthLayers \cup
  {"s.plugin", "e.httpsecure", "e.lua", "mwplugin", "h.lua", "p.lua", "p.cel",
   "jsonschema", "b.lua", "b.cel"}

ResponseGates == {"jsonschemaresp"}

RouterLimiters == {"h.ratelimit", "h.redis", "h.tiered"}

Limiters == RouterLimiters \cup {"b.ratelimit"}

\* Layers that answer the request themselves instead of calling the next one.
Sinks == {"ws", "grpc", "soap", "lambda", "amqp", "pubsub"}

VARIABLES
  conf,     \* the layers the endpoint enables
  phase,    \* "idle", "in" (going down), "calling", "out" (going up), "done"
  entry,    \* "http", "preflight" (of CORS), or "pipe": gRPC server, async agents
  pos,      \* position in Chain; 0 is the HTTP backend
  faults,   \* the gates the request (or its response) does not satisfy
  status,   \* how the request ended so far
  spent,    \* the limiters it took a token from
  called,   \* the sink it was handed to
  tokens,   \* shared: what is left in each limiter
  breaker,  \* shared: [open, errors]
  ticks

reqVars == <<phase, entry, pos, faults, status, spent, called>>

vars == <<conf, phase, entry, pos, faults, status, spent, called, tokens,
          breaker, ticks>>

Init ==
  /\ conf \in Endpoints
  /\ phase = [r \in Requests |-> "idle"]
  /\ entry = [r \in Requests |-> "http"]
  /\ pos = [r \in Requests |-> 0]
  /\ faults = [r \in Requests |-> {}]
  /\ status = [r \in Requests |-> "none"]
  /\ spent = [r \in Requests |-> {}]
  /\ called = [r \in Requests |-> "none"]
  /\ tokens = [l \in Limiters |-> Burst]
  /\ breaker = [open |-> FALSE, errors |-> 0]
  /\ ticks = 0

Enabled(p) == p = 0 \/ Chain[p] \in conf

\* The position of the next enabled layer below p.
Below(p) == Max({q \in 0..(p - 1) : Enabled(q)})

\* The next enabled layer above p, or one past the way in.
Above(p, e) == Min({q \in (p + 1)..Top(e) : Enabled(q)} \cup {Top(e) + 1})

Layer(r) == IF pos[r] = 0 THEN "http" ELSE Chain[pos[r]]

-----------------------------------------------------------------------------
\* The gates a request does not satisfy: at most one of those enabled, and any
\* of them for a preflight, which carries no credentials.
FaultsOf(e) ==
  IF e = "preflight" THEN {conf \cap RequestGates}
  ELSE {g \in SUBSET (conf \cap (RequestGates \cup ResponseGates)) :
          Cardinality(g) <= 1}

\* A request comes in; browsers send preflights to endpoints with CORS.
Arrive(r) ==
  /\ phase[r] = "idle"
  /\ \E e \in {"http", "pipe"} \cup (IF "cors" \in conf THEN {"preflight"} ELSE {}) :
       /\ entry' = [entry EXCEPT ![r] = e]
       /\ \E f \in FaultsOf(e) : faults' = [faults EXCEPT ![r] = f]
       /\ pos' = [pos EXCEPT ![r] = Below(Top(e) + 1)]
  /\ phase' = [phase EXCEPT ![r] = "in"]
  /\ UNCHANGED <<conf, status, spent, called, tokens, breaker, ticks>>

Descend(r) ==
  /\ pos' = [pos EXCEPT ![r] = Below(pos[r])]
  /\ UNCHANGED <<phase, status>>

RefuseAndGoOn(r, s) ==
  /\ status' = [status EXCEPT ![r] = s]
  /\ phase' = [phase EXCEPT ![r] = IF s = "limited" THEN @ ELSE "out"]
  /\ pos' = [pos EXCEPT ![r] = IF s = "limited" THEN Below(@) ELSE @]

\* The layer answers by itself; its answer starts the way back.
Refuse(r, s) ==
  /\ phase' = [phase EXCEPT ![r] = "out"]
  /\ status' = [status EXCEPT ![r] = s]
  /\ UNCHANGED pos

Gate(r) ==
  /\ phase[r] = "in" /\ Layer(r) \in RequestGates
  /\ IF Layer(r) \in faults[r] THEN Refuse(r, "denied") ELSE Descend(r)
  /\ UNCHANGED <<conf, entry, faults, spent, called, tokens, breaker, ticks>>

HasTokenOffByOne(l) == tokens[l] >= 0

HasToken(l) == tokens[l] > 0

Limit(r) ==
  /\ phase[r] = "in" /\ Layer(r) \in Limiters
  /\ IF HasToken(Layer(r))
     THEN /\ tokens' = [tokens EXCEPT ![Layer(r)] = @ - 1]
          /\ spent' = [spent EXCEPT ![r] = @ \cup {Layer(r)}]
          /\ Descend(r)
     ELSE Refuse(r, "limited") /\ UNCHANGED <<tokens, spent>>
  /\ UNCHANGED <<conf, entry, faults, called, breaker, ticks>>

Break(r) ==
  /\ phase[r] = "in" /\ Layer(r) = "cb"
  /\ IF breaker.open THEN Refuse(r, "broken") ELSE Descend(r)
  /\ UNCHANGED <<conf, entry, faults, spent, called, tokens, breaker, ticks>>

\* The CORS layer answers preflights and lets everything else through.
Cors(r) ==
  /\ phase[r] = "in" /\ Layer(r) = "cors"
  /\ IF entry[r] = "preflight" THEN Refuse(r, "ok") ELSE Descend(r)
  /\ UNCHANGED <<conf, entry, faults, spent, called, tokens, breaker, ticks>>

\* A layer that only observes, transforms or forks the request.
PassThrough(r) ==
  /\ phase[r] = "in"
  /\ Layer(r) \notin RequestGates \cup Limiters \cup Sinks \cup {"cb", "cors", "http"}
  /\ Descend(r)
  /\ UNCHANGED <<conf, entry, faults, spent, called, tokens, breaker, ticks>>

\* The innermost layer reached hands the request to its backend, which takes
\* its time to answer.
Call(r) ==
  /\ phase[r] = "in" /\ Layer(r) \in Sinks \cup {"http"}
  /\ called' = [called EXCEPT ![r] = Layer(r)]
  /\ phase' = [phase EXCEPT ![r] = "calling"]
  /\ UNCHANGED <<conf, entry, pos, faults, status, spent, tokens, breaker, ticks>>

Answer(r) ==
  /\ phase[r] = "calling"
  /\ \E s \in {"ok", "failed"} : Refuse(r, s)
  /\ UNCHANGED <<conf, entry, faults, spent, called, tokens, breaker, ticks>>

\* The breaker counts the errors of the layers inside it that follow each other;
\* once it is open, the results of requests let in before count no more.
Recorded(s) ==
  IF breaker.open THEN breaker
  ELSE IF s = "ok" THEN [open |-> FALSE, errors |-> 0]
  ELSE IF breaker.errors + 1 < MaxErrors
       THEN [open |-> FALSE, errors |-> breaker.errors + 1]
       ELSE [open |-> TRUE, errors |-> MaxErrors]

\* The answer passes one more layer on its way out.
Unwind(r) ==
  /\ phase[r] = "out"
  /\ LET q == Above(pos[r], entry[r])
         leaves == q = Top(entry[r]) + 1
         l == IF leaves THEN "client" ELSE Chain[q]
     IN  /\ pos' = [pos EXCEPT ![r] = q]
         /\ phase' = [phase EXCEPT ![r] = IF leaves THEN "done" ELSE "out"]
         /\ status' = [status EXCEPT ![r] =
                         IF l \in ResponseGates /\ l \in faults[r] /\ @ = "ok"
                         THEN "invalid" ELSE @]
         /\ breaker' = IF l = "cb" THEN Recorded(status[r]) ELSE breaker
  /\ UNCHANGED <<conf, entry, faults, spent, called, tokens, ticks>>

\* The client is gone; the slot is free for another request.
Leave(r) ==
  /\ phase[r] = "done"
  /\ phase' = [phase EXCEPT ![r] = "idle"]
  /\ entry' = [entry EXCEPT ![r] = "http"]
  /\ pos' = [pos EXCEPT ![r] = 0]
  /\ faults' = [faults EXCEPT ![r] = {}]
  /\ status' = [status EXCEPT ![r] = "none"]
  /\ spent' = [spent EXCEPT ![r] = {}]
  /\ called' = [called EXCEPT ![r] = "none"]
  /\ UNCHANGED <<conf, tokens, breaker, ticks>>

\* Time passes: the limiters refill.
Refill ==
  /\ ticks < MaxTicks /\ ticks' = ticks + 1
  /\ tokens' = [l \in Limiters |-> Burst]
  /\ UNCHANGED <<conf, breaker>> /\ UNCHANGED reqVars

\* Time passes: an open breaker lets requests through again.
BreakerTimeout ==
  /\ ticks < MaxTicks /\ ticks' = ticks + 1
  /\ breaker.open
  /\ breaker' = [open |-> FALSE, errors |-> 0]
  /\ UNCHANGED <<conf, tokens>> /\ UNCHANGED reqVars

GatewayStep(r) ==
  \/ Gate(r) \/ Limit(r) \/ Break(r) \/ Cors(r) \/ PassThrough(r)
  \/ Call(r) \/ Unwind(r)

Next ==
  \/ \E r \in Requests : Arrive(r) \/ GatewayStep(r) \/ Answer(r) \/ Leave(r)
  \/ Refill \/ BreakerTimeout

Spec == Init /\ [][Next]_vars

-----------------------------------------------------------------------------
(* Properties *)

\* The values each piece of the pipeline's state can take.
TypeOK ==
  /\ conf \in Endpoints
  /\ phase \in [Requests -> {"idle", "in", "calling", "out", "done"}]
  /\ entry \in [Requests -> {"http", "preflight", "pipe"}]
  /\ pos \in [Requests -> 0..(Len(Chain) + 1)]
  /\ faults \in [Requests -> SUBSET (RequestGates \cup ResponseGates)]
  /\ status \in [Requests -> {"none", "ok", "denied", "limited", "broken",
                              "failed", "invalid"}]
  /\ spent \in [Requests -> SUBSET Limiters]
  /\ called \in [Requests -> Sinks \cup {"none", "http"}]
  /\ tokens \in [Limiters -> 0..Burst]
  /\ breaker \in [open: BOOLEAN, errors: 0..MaxErrors]
  /\ ticks \in 0..MaxTicks

\* A request that an enabled authentication layer turns down has cost nothing:
\* it took no token from any limiter, so it cannot starve the clients that do
\* authenticate, and no backend heard of it (handler_factory.go:46-59).
AuthBeforeCost ==
  \A r \in Requests :
    entry[r] = "http" /\ faults[r] \cap AuthLayers # {} =>
      spent[r] = {} /\ called[r] = "none" /\ status[r] \in {"none", "denied"}

\* A backend is called only on behalf of a request that paid every limiter on
\* its way; traffic of WebSocket endpoints is answered outside of the limiters
\* and of the whole proxy (handler_factory.go:47-51, backend_factory.go:85).
CallsArePaid ==
  \A r \in Requests : called[r] # "none" =>
    IF called[r] = "ws"
    THEN entry[r] = "http" /\ spent[r] = {}
    ELSE conf \cap (IF entry[r] = "http" THEN Limiters ELSE {"b.ratelimit"})
           \subseteq spent[r]

\* A request that an open breaker turns down takes nothing from the backend's
\* budget, whatever the requests around it do (backend_factory.go:85-86).
BrokenSpendsNothing ==
  \A r \in Requests :
    status[r] = "broken" => "b.ratelimit" \notin spent[r] /\ called[r] = "none"

\* On an endpoint with CORS a preflight, which cannot authenticate, is neither
\* turned down by a plugin, by the engine or by an authentication layer nor
\* charged for: the browser's real request follows only if it is let through
\* (executor.go:236-239, 332-337).
PreflightPasses ==
  \A r \in Requests : entry[r] = "preflight" =>
    status[r] \in {"none", "ok"} /\ spent[r] = {} /\ called[r] = "none"
=============================================================================
