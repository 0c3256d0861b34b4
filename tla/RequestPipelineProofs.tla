------------------------ MODULE RequestPipelineProofs ------------------------
(***************************************************************************)
(* Proofs about the safety of RequestPipeline, for every number of concurrent *)
(* requests, every set of endpoint configurations (any subset of the layers   *)
(* may be enabled), every burst, error threshold and number of ticks.         *)
(***************************************************************************)
EXTENDS RequestPipeline, WellFoundedInduction, TLAPS

-----------------------------------------------------------------------------
(* Least and greatest elements *)

\* A set of naturals that is not empty has a least element.
LEMMA LeastNatural ==
  ASSUME NEW T \in SUBSET Nat, T # {}
  PROVE  \E x \in T : \A y \in T : x <= y
<1> DEFINE R == OpToRel(<, Nat)
<1>1. \A x, y \in Nat : x < y => <<x, y>> \in R
  BY DEF OpToRel
<1>2. IsWellFoundedOn(R, Nat)
  BY NatLessThanWellFounded
<1> HIDE DEF R
<1>3. PICK x \in T : \A y \in T : ~(<<y, x>> \in R)
  BY <1>2, WFMin
<1>4. \A y \in T : ~(y < x)
  BY <1>1, <1>3
<1> QED
  BY <1>4

\* A set of naturals with a bound has a greatest one.
LEMMA GreatestNatural ==
  ASSUME NEW n \in Nat, NEW T \in SUBSET (0..n), T # {}
  PROVE  \E x \in T : \A y \in T : x >= y
<1> DEFINE U == {u \in Nat : \E x \in T : u = n - x}
<1>1. U \in SUBSET Nat
  OBVIOUS
<1>2. U # {}
  <2>1. PICK x : x \in T
    OBVIOUS
  <2>2. n - x \in U
    BY <2>1
  <2> QED
    BY <2>2
<1>3. PICK u \in U : \A v \in U : u <= v
  <2> HIDE DEF U
  <2> QED
    BY <1>1, <1>2, LeastNatural
<1>4. PICK x \in T : u = n - x
  OBVIOUS
<1>5. ASSUME NEW y \in T PROVE x >= y
  <2>1. n - y \in U
    OBVIOUS
  <2>2. n - x <= n - y
    BY <1>3, <1>4, <2>1
  <2> QED
    BY <2>2
<1> QED
  BY <1>5

-----------------------------------------------------------------------------
(* Where the layers are *)

\* The ways in: HTTP requests and preflights cross all the stacks, the gRPC
\* server and the agents only the proxy's and the backend's (executor.go:229-239).
LEMMA Tops ==
  /\ Len(Chain) = 43
  /\ Top("pipe") = 23 /\ \A e : e # "pipe" => Top(e) = 43
BY DEF Top, Chain, BackendStack, ProxyStack, HandlerStack, EngineStack, ServerStack

\* The roles of the layers, by position: the limiters of the router are below
\* the authentication layers, the one of the backend is below the breaker, and
\* only tracing is above CORS (handler_factory.go:46-59, proxy_factory.go:22-33,
\* backend_factory.go:76-89, executor.go:229-239).
LEMMA Roles ==
  ASSUME NEW p \in 1..43
  PROVE  /\ Chain[p] \in AuthLayers => p > 28
         /\ Chain[p] \in RouterLimiters => p \in 24..26
         /\ Chain[p] = "b.ratelimit" <=> p = 8
         /\ Chain[p] = "cb" <=> p = 9
         /\ Chain[p] \in Sinks => p < 6 \/ p = 28
         /\ Chain[p] = "ws" <=> p = 28
         /\ Chain[p] = "cors" <=> p = 42
         /\ p > 41 => Chain[p] \notin RequestGates \cup Limiters \cup Sinks \cup {"cb"}
         /\ Chain[p] # "http"
BY DEF Chain, BackendStack, ProxyStack, HandlerStack, EngineStack, ServerStack,
       RequestGates, AuthLayers, Limiters, RouterLimiters, Sinks

\* Every limiter and every authentication layer is in the chain.
LEMMA Places ==
  /\ Chain[8] = "b.ratelimit" /\ Chain[42] = "cors"
  /\ \A l \in RouterLimiters : \E p \in 24..26 : Chain[p] = l
  /\ \A l \in AuthLayers : \E p \in 29..43 : Chain[p] = l
<1> USE DEF Chain, BackendStack, ProxyStack, HandlerStack, EngineStack, ServerStack
<1>1. Chain[8] = "b.ratelimit" /\ Chain[42] = "cors"
  OBVIOUS
<1>2. Chain[24] = "h.ratelimit" /\ Chain[25] = "h.redis" /\ Chain[26] = "h.tiered"
  OBVIOUS
<1>3. /\ Chain[29] = "apikeys" /\ Chain[30] = "basicauth" /\ Chain[31] = "jose"
      /\ Chain[32] = "policies" /\ Chain[36] = "botdetector"
      /\ Chain[38] = "e.botdetector"
  OBVIOUS
<1> HIDE DEF Chain, BackendStack, ProxyStack, HandlerStack, EngineStack, ServerStack
<1>4. ASSUME NEW l \in AuthLayers PROVE \E p \in 29..43 : Chain[p] = l
  <2> 29 \in 29..43 /\ 30 \in 29..43 /\ 31 \in 29..43 /\ 32 \in 29..43 /\ 36 \in 29..43
      /\ 38 \in 29..43
    OBVIOUS
  <2> QED
    BY <1>3 DEF AuthLayers
<1> QED
  BY <1>1, <1>2, <1>4 DEF RouterLimiters

\* The next layer down is enabled, and no enabled layer is skipped.
LEMMA BelowIsNext ==
  ASSUME NEW p \in 1..44
  PROVE  /\ Below(p) \in 0..(p - 1) /\ Enabled(Below(p))
         /\ \A q \in 0..(p - 1) : Enabled(q) => q <= Below(p)
<1> DEFINE T == {q \in 0..(p - 1) : Enabled(q)}
<1>1. T \in SUBSET (0..(p - 1)) /\ T # {}
  <2>1. 0 \in T
    BY DEF Enabled
  <2> QED
    BY <2>1
<1>2. p - 1 \in Nat
  OBVIOUS
<1>3. \E x \in T : \A y \in T : x >= y
  <2> HIDE DEF T
  <2> QED
    BY <1>1, <1>2, GreatestNatural
<1>4. Max(T) \in T /\ \A y \in T : Max(T) >= y
  <2> HIDE DEF T
  <2> QED
    BY <1>3 DEF Max
<1> QED
  BY <1>4 DEF Below

\* On the way up an answer moves on, at most to one past the way in.
LEMMA AboveIsUp ==
  ASSUME NEW p \in 0..43, NEW e, p <= Top(e)
  PROVE  Above(p, e) \in (p + 1)..(Top(e) + 1)
<1> DEFINE T == {q \in (p + 1)..Top(e) : Enabled(q)} \cup {Top(e) + 1}
<1>1. Top(e) \in Nat
  BY Tops
<1>2. T \in SUBSET ((p + 1)..(Top(e) + 1)) /\ T # {}
  BY <1>1
<1>3. \E x \in T : \A y \in T : x <= y
  <2>1. T \in SUBSET Nat
    BY <1>1, <1>2
  <2> HIDE DEF T
  <2> QED
    BY <1>2, <2>1, LeastNatural
<1>4. Min(T) \in T
  <2> HIDE DEF T
  <2> QED
    BY <1>3 DEF Min
<1> QED
  BY <1>2, <1>4 DEF Above

-----------------------------------------------------------------------------
(* The inductive invariant *)

\* The enabled layers a request that is on its way in has behind it.
Crossed(r) == {q \in 1..43 : pos[r] < q /\ q <= Top(entry[r]) /\ Enabled(q)}

\* A request on its way in stands at an enabled layer, satisfied every gate
\* behind it, and has taken a token of every limiter behind it and of no other.
OnWay(r) ==
  phase[r] \in {"in", "calling"} =>
    /\ pos[r] <= Top(entry[r]) /\ Enabled(pos[r])
    /\ \A q \in Crossed(r) : Chain[q] \notin faults[r] \cap RequestGates
    /\ spent[r] = {Chain[q] : q \in Crossed(r)} \cap Limiters
    /\ entry[r] = "preflight" => pos[r] >= 42
    /\ status[r] = "none"
    /\ phase[r] = "in" <=> called[r] = "none"

\* What a request brings, and what it has not done before it came.
Brings(r) ==
  /\ faults[r] \subseteq conf
  /\ entry[r] = "preflight" => "cors" \in conf /\ faults[r] \cap ResponseGates = {}
  /\ phase[r] = "idle" => spent[r] = {} /\ called[r] = "none" /\ status[r] = "none"
  /\ phase[r] = "out" => pos[r] <= Top(entry[r])

\* The four properties, for one request.
Outcome(r) ==
  /\ entry[r] = "http" /\ faults[r] \cap AuthLayers # {} =>
       spent[r] = {} /\ called[r] = "none" /\ status[r] \in {"none", "denied"}
  /\ called[r] # "none" =>
       IF called[r] = "ws"
       THEN entry[r] = "http" /\ spent[r] = {}
       ELSE conf \cap (IF entry[r] = "http" THEN Limiters ELSE {"b.ratelimit"})
              \subseteq spent[r]
  /\ status[r] = "broken" => "b.ratelimit" \notin spent[r] /\ called[r] = "none"
  /\ entry[r] = "preflight" =>
       status[r] \in {"none", "ok"} /\ spent[r] = {} /\ called[r] = "none"

Sound(r) == OnWay(r) /\ Brings(r) /\ Outcome(r)

IndInv == TypeOK /\ \A r \in Requests : Sound(r)

-----------------------------------------------------------------------------
(* Induction *)

\* Before the first request the invariant holds.
LEMMA InitIndInv == Init => IndInv
<1> SUFFICES ASSUME Init PROVE IndInv
  OBVIOUS
<1>1. TypeOK
  <2>1. breaker \in [open: BOOLEAN, errors: 0..MaxErrors]
    BY PipelineAssumption DEF Init
  <2> QED
    BY <2>1, PipelineAssumption, Tops DEF Init, TypeOK
<1>2. \A r \in Requests : Sound(r)
  BY DEF Init, Sound, OnWay, Brings, Outcome
<1> QED
  BY <1>1, <1>2 DEF IndInv

\* A step that leaves a request and the configuration alone keeps what is true
\* of that request: the tokens and the breaker it shares with others are no part
\* of it.
LEMMA Frame ==
  ASSUME NEW s, Sound(s), conf' = conf,
         phase'[s] = phase[s], entry'[s] = entry[s], pos'[s] = pos[s],
         faults'[s] = faults[s], status'[s] = status[s], spent'[s] = spent[s],
         called'[s] = called[s]
  PROVE  Sound(s)'
<1>1. \A p : Enabled(p)' <=> Enabled(p)
  BY DEF Enabled
<1>2. Crossed(s)' = Crossed(s)
  BY <1>1 DEF Crossed
<1>3. OnWay(s)'
  BY <1>1, <1>2 DEF Sound, OnWay
<1>4. Brings(s)' /\ Outcome(s)'
  BY DEF Sound, Brings, Outcome
<1> QED
  BY <1>3, <1>4 DEF Sound

\* A request on its way in stands in the chain or at its bottom.
LEMMA Standing ==
  ASSUME IndInv, NEW r \in Requests, phase[r] \in {"in", "calling"}
  PROVE  /\ pos[r] \in 0..43 /\ pos[r] <= Top(entry[r])
         /\ pos[r] = 0 => Layer(r) = "http"
         /\ pos[r] > 0 => Layer(r) = Chain[pos[r]]
<1>1. pos[r] \in Nat /\ pos[r] <= Top(entry[r])
  BY Tops DEF IndInv, Sound, OnWay, TypeOK
<1>2. Top(entry[r]) \in {23, 43}
  BY Tops
<1> QED
  BY <1>1, <1>2 DEF Layer

\* The layers behind a request that an authentication layer would turn down
\* hold no limiter, and it has not come as far as a backend.
LEMMA FaultyIsOutside ==
  ASSUME IndInv, NEW r \in Requests, phase[r] \in {"in", "calling"},
         entry[r] = "http", faults[r] \cap AuthLayers # {}
  PROVE  pos[r] > 28
<1>1. PICK l \in AuthLayers : l \in faults[r]
  OBVIOUS
<1>2. PICK p \in 29..43 : Chain[p] = l
  BY Places
<1>3. Enabled(p)
  BY <1>1, <1>2 DEF IndInv, Sound, Brings, Enabled
<1>4. l \in RequestGates
  BY DEF RequestGates
<1>5. p \notin Crossed(r)
  BY <1>1, <1>2, <1>4 DEF IndInv, Sound, OnWay
<1>6. p <= Top(entry[r])
  BY Tops
<1> QED
  BY <1>3, <1>5, <1>6, Standing DEF Crossed

\* Going down one layer: the layer a request leaves let it through, and took a
\* token if it is a limiter.
LEMMA DescendSound ==
  ASSUME IndInv, NEW r \in Requests, phase[r] = "in", pos[r] > 0,
         Chain[pos[r]] \notin faults[r] \cap RequestGates,
         entry[r] = "preflight" => pos[r] = 43,
         spent'[r] = spent[r] \cup ({Chain[pos[r]]} \cap Limiters),
         pos'[r] = Below(pos[r]), conf' = conf, phase'[r] = phase[r],
         entry'[r] = entry[r], faults'[r] = faults[r], status'[r] = status[r],
         called'[r] = called[r]
  PROVE  Sound(r)'
<1> DEFINE p == pos[r]
<1>1. p \in 1..43 /\ p <= Top(entry[r])
  BY Standing
<1>2. /\ Below(p) \in 0..(p - 1) /\ Enabled(Below(p))
      /\ \A q \in 0..(p - 1) : Enabled(q) => q <= Below(p)
  <2>1. p \in 1..44
    BY <1>1
  <2> HIDE DEF p
  <2> QED
    BY <2>1, BelowIsNext
<1>3. \A q : Enabled(q)' <=> Enabled(q)
  BY DEF Enabled
<1>4. Enabled(p)
  BY DEF IndInv, Sound, OnWay
<1>5. Crossed(r)' = Crossed(r) \cup {p}
  <2>1. ASSUME NEW q \in 1..43, Enabled(q), q <= Top(entry[r])
        PROVE  Below(p) < q <=> p < q \/ q = p
    BY <1>1, <1>2, <2>1
  <2>2. p \in 1..43 /\ Enabled(p) /\ p <= Top(entry[r])
    BY <1>1, <1>4
  <2> QED
    BY <2>1, <2>2, <1>3 DEF Crossed
<1>6. OnWay(r)
  BY DEF IndInv, Sound
<1>7. \A q \in Crossed(r)' : Chain[q] \notin faults[r] \cap RequestGates
  BY <1>5, <1>6 DEF OnWay
<1>8. spent'[r] = {Chain[q] : q \in Crossed(r)'} \cap Limiters
  BY <1>5, <1>6 DEF OnWay
<1>9. entry[r] = "preflight" => Below(p) >= 42
  <2> SUFFICES ASSUME entry[r] = "preflight" PROVE Below(p) >= 42
    OBVIOUS
  <2>1. "cors" \in conf /\ p = 43
    BY DEF IndInv, Sound, Brings
  <2>2. Enabled(42)
    BY <2>1, Places DEF Enabled
  <2> QED
    BY <1>2, <2>1, <2>2
<1>10. OnWay(r)'
  BY <1>1, <1>2, <1>3, <1>6, <1>7, <1>8, <1>9, Tops DEF OnWay
<1>11. Brings(r)'
  BY DEF IndInv, Sound, Brings
<1>12. status[r] = "none" /\ called[r] = "none"
  BY <1>6 DEF OnWay
<1>13. entry[r] = "http" /\ faults[r] \cap AuthLayers # {} => spent'[r] = {}
  <2> SUFFICES ASSUME entry[r] = "http", faults[r] \cap AuthLayers # {}
               PROVE  Chain[p] \notin Limiters /\ spent[r] = {}
    OBVIOUS
  <2>1. p > 28
    BY FaultyIsOutside
  <2>2. Chain[p] \notin Limiters
    BY <1>1, <2>1, Roles DEF Limiters
  <2>3. spent[r] = {}
    BY DEF IndInv, Sound, Outcome
  <2> QED
    BY <2>2, <2>3
<1>14. entry[r] = "preflight" => spent'[r] = {}
  <2>1. p = 43 => Chain[p] \notin Limiters
    BY <1>1, Roles
  <2>2. entry[r] = "preflight" => spent[r] = {}
    BY DEF IndInv, Sound, Outcome
  <2> QED
    BY <2>1, <2>2
<1>15. Outcome(r)'
  BY <1>12, <1>13, <1>14 DEF Outcome
<1> QED
  BY <1>10, <1>11, <1>15 DEF Sound

\* A layer that answers by itself, or a backend that does, starts the way back.
LEMMA RefuseSound ==
  ASSUME IndInv, NEW r \in Requests, phase[r] \in {"in", "calling"}, NEW t,
         phase'[r] = "out", status'[r] = t, pos'[r] = pos[r], conf' = conf,
         entry'[r] = entry[r], faults'[r] = faults[r], spent'[r] = spent[r],
         called'[r] = called[r],
         entry[r] = "http" /\ faults[r] \cap AuthLayers # {} => t = "denied",
         t = "broken" => "b.ratelimit" \notin spent[r] /\ called[r] = "none",
         entry[r] = "preflight" => t = "ok"
  PROVE  Sound(r)'
<1>1. OnWay(r)'
  BY DEF OnWay
<1>2. Brings(r)'
  BY DEF IndInv, Sound, OnWay, Brings
<1>3. Outcome(r)'
  BY DEF IndInv, Sound, Outcome
<1> QED
  BY <1>1, <1>2, <1>3 DEF Sound

\* Everything of another request is as it was.
Untouched(s) ==
  /\ phase'[s] = phase[s] /\ entry'[s] = entry[s] /\ pos'[s] = pos[s]
  /\ faults'[s] = faults[s] /\ status'[s] = status[s] /\ spent'[s] = spent[s]
  /\ called'[s] = called[s]

\* Requests move one at a time.
LEMMA OneAtATime ==
  ASSUME IndInv, NEW r \in Requests, conf' = conf,
         \A s \in Requests \ {r} : Untouched(s), TypeOK', Sound(r)'
  PROVE  IndInv'
<1>1. ASSUME NEW s \in Requests, s # r PROVE Sound(s)'
  BY <1>1, Frame DEF Untouched, IndInv
<1> QED
  BY <1>1 DEF IndInv

\* The position of a request that goes down stays in the chain.
LEMMA DescendType ==
  ASSUME IndInv, NEW r \in Requests, phase[r] = "in", pos[r] > 0
  PROVE  Below(pos[r]) \in 0..(Len(Chain) + 1)
<1> DEFINE p == pos[r]
<1>1. p \in 1..44
  BY Standing
<1>2. Below(p) \in 0..(p - 1)
  <2> HIDE DEF p
  <2> QED
    BY <1>1, BelowIsNext
<1> QED
  BY <1>1, <1>2, Tops

\* A request comes in at the outermost enabled layer of its way, with nothing
\* behind it.
LEMMA ArriveIndInv ==
  ASSUME IndInv, NEW r \in Requests, Arrive(r)
  PROVE  IndInv'
<1> USE DEF IndInv
<1>0. PICK e \in {"http", "pipe", "preflight"} :
        /\ e = "preflight" => "cors" \in conf
        /\ entry' = [entry EXCEPT ![r] = e]
        /\ \E f \in FaultsOf(e) : faults' = [faults EXCEPT ![r] = f]
        /\ pos' = [pos EXCEPT ![r] = Below(Top(e) + 1)]
  BY DEF Arrive
<1>1. PICK f \in FaultsOf(e) : faults' = [faults EXCEPT ![r] = f]
  BY <1>0
<1>2. /\ f \subseteq conf /\ f \subseteq RequestGates \cup ResponseGates
      /\ e = "preflight" => f \cap ResponseGates = {}
  BY DEF FaultsOf, RequestGates, AuthLayers, ResponseGates
<1> DEFINE t == Top(e) + 1
<1>3. t \in 1..44 /\ t = Top(e) + 1 /\ Top(e) \in {23, 43} /\ (e # "pipe" => t = 44)
  BY Tops
<1>4. /\ Below(t) \in 0..(t - 1) /\ Enabled(Below(t))
      /\ \A q \in 0..(t - 1) : Enabled(q) => q <= Below(t)
  <2> HIDE DEF t
  <2> QED
    BY <1>3, BelowIsNext
<1>5. pos' = [pos EXCEPT ![r] = Below(t)]
  BY <1>0
<1> HIDE DEF t
<1>6. TypeOK'
  <2>1. pos' \in [Requests -> 0..(Len(Chain) + 1)]
    BY <1>3, <1>4, <1>5, Tops DEF TypeOK
  <2>2. faults' \in [Requests -> SUBSET (RequestGates \cup ResponseGates)]
    BY <1>1, <1>2 DEF TypeOK
  <2>3. entry' \in [Requests -> {"http", "preflight", "pipe"}]
    BY <1>0 DEF TypeOK
  <2>4. phase' \in [Requests -> {"idle", "in", "calling", "out", "done"}]
    BY DEF TypeOK, Arrive
  <2> QED
    BY <2>1, <2>2, <2>3, <2>4 DEF TypeOK, Arrive
<1>7. /\ phase'[r] = "in" /\ entry'[r] = e /\ faults'[r] = f /\ pos'[r] = Below(t)
      /\ status'[r] = "none" /\ spent'[r] = {} /\ called'[r] = "none" /\ conf' = conf
  BY <1>0, <1>1, <1>5 DEF TypeOK, Arrive, Sound, Brings
<1>8. \A q : Enabled(q)' <=> Enabled(q)
  BY <1>7 DEF Enabled
<1>9. Crossed(r)' = {}
  <2> SUFFICES ASSUME NEW q \in 1..43, Below(t) < q, q <= Top(e), Enabled(q)
               PROVE  FALSE
    BY <1>7, <1>8 DEF Crossed
  <2> QED
    BY <1>3, <1>4
<1>10. e = "preflight" => Below(t) >= 42
  <2> SUFFICES ASSUME e = "preflight" PROVE Below(t) >= 42
    OBVIOUS
  <2>1. Enabled(42) /\ t = 44
    BY <1>0, <1>3, Places DEF Enabled
  <2> QED
    BY <1>4, <2>1
<1>11. Sound(r)'
  <2>1. OnWay(r)'
    BY <1>3, <1>4, <1>7, <1>8, <1>9, <1>10 DEF OnWay
  <2>2. Brings(r)'
    BY <1>0, <1>2, <1>7 DEF Brings
  <2>3. Outcome(r)'
    BY <1>7 DEF Outcome
  <2> QED
    BY <2>1, <2>2, <2>3 DEF Sound
<1>12. \A s \in Requests \ {r} : Untouched(s)
  BY <1>0, <1>1, <1>5 DEF TypeOK, Arrive, Untouched
<1> QED
  BY <1>6, <1>7, <1>11, <1>12, OneAtATime

\* A layer on the way in that lets a request through or turns it down: gates,
\* the breaker, CORS and the layers without a role (Gate, Break, Cors,
\* PassThrough).
LEMMA LayerIndInv ==
  ASSUME IndInv, NEW r \in Requests,
         Gate(r) \/ Break(r) \/ Cors(r) \/ PassThrough(r)
  PROVE  IndInv'
<1> USE DEF IndInv
<1>1. phase[r] = "in" /\ UNCHANGED <<conf, entry, faults, spent, called, tokens, breaker, ticks>>
  BY DEF Gate, Break, Cors, PassThrough
<1>2. /\ pos[r] \in 0..43 /\ pos[r] > 0 /\ Layer(r) = Chain[pos[r]] /\ Layer(r) \notin Limiters
  <2>1. Layer(r) # "http" /\ Layer(r) \notin Limiters
    BY DEF Gate, Break, Cors, PassThrough, RequestGates, AuthLayers, Limiters, RouterLimiters
  <2> QED
    BY <1>1, <2>1, Standing
<1>3. /\ Layer(r) = "cb" <=> pos[r] = 9
      /\ Layer(r) = "cors" <=> pos[r] = 42
      /\ pos[r] > 41 => Layer(r) \notin RequestGates
  BY <1>2, Roles
<1>4. entry[r] = "preflight" => pos[r] >= 42
  BY <1>1 DEF Sound, OnWay
<1>5. CASE Descend(r) /\ Layer(r) \notin faults[r] \cap RequestGates
              /\ (Layer(r) = "cors" => entry[r] # "preflight")
  <2>1. TypeOK'
    <3>1. pos' \in [Requests -> 0..(Len(Chain) + 1)]
      BY <1>1, <1>2, <1>5, DescendType DEF Descend, TypeOK
    <3> QED
      BY <1>1, <1>5, <3>1 DEF Descend, TypeOK
  <2>2. pos'[r] = Below(pos[r]) /\ phase'[r] = phase[r] /\ status'[r] = status[r]
    BY <1>5 DEF Descend, TypeOK
  <2>3. entry[r] = "preflight" => pos[r] = 43
    BY <1>2, <1>3, <1>4, <1>5
  <2>4. Sound(r)'
    BY <1>1, <1>2, <1>5, <2>2, <2>3, DescendSound
  <2>5. \A s \in Requests \ {r} : Untouched(s)
    BY <1>1, <1>5 DEF Descend, TypeOK, Untouched
  <2> QED
    BY <1>1, <2>1, <2>4, <2>5, OneAtATime
<1>6. ASSUME NEW u \in {"denied", "broken", "ok"}, Refuse(r, u),
             u = "denied" => Layer(r) \in RequestGates,
             u = "broken" => Layer(r) = "cb",
             u = "ok" => entry[r] = "preflight" /\ Layer(r) = "cors"
      PROVE  IndInv'
  <2>1. TypeOK'
    BY <1>1, <1>6 DEF Refuse, TypeOK
  <2>2. phase'[r] = "out" /\ status'[r] = u /\ pos'[r] = pos[r]
    BY <1>6 DEF Refuse, TypeOK
  <2>3. entry[r] = "http" /\ faults[r] \cap AuthLayers # {} => u = "denied"
    BY <1>1, <1>3, <1>6, FaultyIsOutside
  <2>4. u = "broken" => "b.ratelimit" \notin spent[r] /\ called[r] = "none"
    <3> SUFFICES ASSUME u = "broken"
                 PROVE  "b.ratelimit" \notin {Chain[q] : q \in Crossed(r)} /\ called[r] = "none"
      BY <1>1 DEF Sound, OnWay
    <3>1. \A q \in Crossed(r) : q \in 1..43 /\ q > 9
      BY <1>3, <1>6 DEF Crossed
    <3>2. \A q \in Crossed(r) : Chain[q] # "b.ratelimit"
      BY <3>1, Roles
    <3> QED
      BY <1>1, <3>2 DEF Sound, OnWay
  <2>5. entry[r] = "preflight" => u = "ok"
    BY <1>2, <1>3, <1>4, <1>6
  <2>6. Sound(r)'
    BY <1>1, <2>2, <2>3, <2>4, <2>5, RefuseSound
  <2>7. \A s \in Requests \ {r} : Untouched(s)
    BY <1>1, <1>6 DEF Refuse, TypeOK, Untouched
  <2> QED
    BY <1>1, <2>1, <2>6, <2>7, OneAtATime
<1>7. CASE Gate(r)
  <2>1. Layer(r) \in faults[r] => Refuse(r, "denied")
    BY <1>7 DEF Gate
  <2>2. Layer(r) \in RequestGates /\ Layer(r) # "cors"
    BY <1>7 DEF Gate, RequestGates, AuthLayers
  <2>3. Layer(r) \notin faults[r] => Descend(r)
    BY <1>7 DEF Gate
  <2> QED
    BY <1>5, <1>6, <2>1, <2>2, <2>3
<1>8. CASE Break(r)
  <2>1. Layer(r) = "cb" /\ Layer(r) \notin RequestGates
    BY <1>8 DEF Break, RequestGates, AuthLayers
  <2>2. Refuse(r, "broken") \/ Descend(r)
    BY <1>8 DEF Break
  <2> QED
    BY <1>5, <1>6, <2>1, <2>2
<1>9. CASE Cors(r)
  <2>1. Layer(r) = "cors" /\ Layer(r) \notin RequestGates
    BY <1>9 DEF Cors, RequestGates, AuthLayers
  <2>2. IF entry[r] = "preflight" THEN Refuse(r, "ok") ELSE Descend(r)
    BY <1>9 DEF Cors
  <2> QED
    BY <1>5, <1>6, <2>1, <2>2
<1>10. CASE PassThrough(r)
  BY <1>5, <1>10 DEF PassThrough
<1> QED
  BY <1>7, <1>8, <1>9, <1>10

\* A limiter takes a token and lets the request through, or turns it down.
LEMMA LimitIndInv ==
  ASSUME IndInv, NEW r \in Requests, Limit(r)
  PROVE  IndInv'
<1> USE DEF IndInv
<1>1. /\ phase[r] = "in" /\ Layer(r) \in Limiters
      /\ UNCHANGED <<conf, entry, faults, called, breaker, ticks>>
  BY DEF Limit
<1>2. /\ pos[r] \in 0..43 /\ pos[r] > 0 /\ Layer(r) = Chain[pos[r]] /\ Layer(r) \notin RequestGates
  <2>1. Layer(r) # "http" /\ Layer(r) \notin RequestGates
    BY <1>1 DEF RequestGates, AuthLayers, Limiters, RouterLimiters
  <2> QED
    BY <1>1, <2>1, Standing
<1>3. pos[r] < 27
  BY <1>1, <1>2, Roles DEF Limiters
<1>4. entry[r] # "preflight"
  BY <1>1, <1>2, <1>3 DEF Sound, OnWay
<1>5. CASE HasToken(Layer(r))
  <2>1. /\ tokens' = [tokens EXCEPT ![Layer(r)] = @ - 1]
        /\ spent' = [spent EXCEPT ![r] = @ \cup {Layer(r)}]
        /\ Descend(r)
    BY <1>5 DEF Limit
  <2>2. TypeOK'
    <3>1. pos' \in [Requests -> 0..(Len(Chain) + 1)]
      BY <1>1, <1>2, <2>1, DescendType DEF Descend, TypeOK
    <3>2. tokens' \in [Limiters -> 0..Burst]
      <4>1. tokens[Layer(r)] \in 0..Burst /\ tokens[Layer(r)] > 0
        BY <1>1, <1>5 DEF HasToken, TypeOK
      <4>2. tokens[Layer(r)] - 1 \in 0..Burst
        BY <4>1, PipelineAssumption
      <4> QED
        BY <1>1, <2>1, <4>2 DEF TypeOK
    <3>3. spent' \in [Requests -> SUBSET Limiters]
      BY <1>1, <2>1 DEF TypeOK
    <3> QED
      BY <1>1, <2>1, <3>1, <3>2, <3>3 DEF Descend, TypeOK
  <2>3. /\ pos'[r] = Below(pos[r]) /\ phase'[r] = phase[r] /\ status'[r] = status[r]
        /\ spent'[r] = spent[r] \cup ({Chain[pos[r]]} \cap Limiters)
    BY <1>1, <1>2, <2>1 DEF Descend, TypeOK
  <2>4. Sound(r)'
    BY <1>1, <1>2, <1>4, <2>3, DescendSound
  <2>5. \A s \in Requests \ {r} : Untouched(s)
    BY <1>1, <2>1 DEF Descend, TypeOK, Untouched
  <2> QED
    BY <1>1, <2>2, <2>4, <2>5, OneAtATime
<1>6. CASE ~HasToken(Layer(r))
  <2>1. Refuse(r, "limited") /\ UNCHANGED <<tokens, spent>>
    BY <1>6 DEF Limit
  <2>2. TypeOK'
    BY <1>1, <2>1 DEF Refuse, TypeOK
  <2>3. phase'[r] = "out" /\ status'[r] = "limited" /\ pos'[r] = pos[r]
    BY <2>1 DEF Refuse, TypeOK
  <2>4. ~(entry[r] = "http" /\ faults[r] \cap AuthLayers # {})
    BY <1>1, <1>2, <1>3, FaultyIsOutside
  <2>5. Sound(r)'
    BY <1>1, <1>4, <2>1, <2>3, <2>4, RefuseSound
  <2>6. \A s \in Requests \ {r} : Untouched(s)
    BY <1>1, <2>1 DEF Refuse, TypeOK, Untouched
  <2> QED
    BY <1>1, <2>2, <2>5, <2>6, OneAtATime
<1> QED
  BY <1>5, <1>6

\* A request that reaches a backend has every enabled limiter of its way behind
\* it; one that reaches a WebSocket backend has none behind it.
LEMMA CallIndInv ==
  ASSUME IndInv, NEW r \in Requests, Call(r)
  PROVE  IndInv'
<1> USE DEF IndInv
<1>1. /\ phase[r] = "in" /\ Layer(r) \in Sinks \cup {"http"}
      /\ called' = [called EXCEPT ![r] = Layer(r)]
      /\ phase' = [phase EXCEPT ![r] = "calling"]
      /\ UNCHANGED <<conf, entry, pos, faults, status, spent, tokens, breaker, ticks>>
  BY DEF Call
<1>2. /\ called'[r] = Layer(r) /\ called'[r] # "none" /\ phase'[r] = "calling"
  BY <1>1 DEF TypeOK, Sinks
<1>3. /\ pos[r] \in 0..43 /\ pos[r] <= Top(entry[r])
      /\ Layer(r) = "ws" <=> pos[r] = 28
      /\ pos[r] < 6 \/ pos[r] = 28
  BY <1>1, Standing, Roles
<1>4. OnWay(r) /\ Brings(r) /\ Outcome(r)
  BY DEF Sound
<1>5. entry[r] # "preflight" /\ (pos[r] = 28 => entry[r] = "http")
  <2>1. entry[r] \in {"http", "preflight", "pipe"}
    BY DEF TypeOK
  <2> QED
    BY <1>1, <1>3, <1>4, <2>1, Tops DEF OnWay
<1>6. ~(entry[r] = "http" /\ faults[r] \cap AuthLayers # {})
  BY <1>1, <1>3, FaultyIsOutside
<1>7. pos[r] = 28 => spent[r] = {}
  <2>1. ASSUME pos[r] = 28, NEW q \in Crossed(r) PROVE Chain[q] \notin Limiters
    BY <2>1, Roles DEF Crossed, Limiters
  <2> QED
    BY <1>1, <1>4, <2>1 DEF OnWay
<1>8. pos[r] < 6 =>
        conf \cap (IF entry[r] = "http" THEN Limiters ELSE {"b.ratelimit"}) \subseteq spent[r]
  <2> SUFFICES ASSUME pos[r] < 6, NEW l \in conf,
                      l \in (IF entry[r] = "http" THEN Limiters ELSE {"b.ratelimit"})
               PROVE  l \in spent[r]
    OBVIOUS
  <2>1. l \in Limiters
    BY DEF Limiters
  <2>2. \E q \in 6..26 : Chain[q] = l /\ q <= Top(entry[r])
    <3>1. Top(entry[r]) \in {23, 43} /\ (entry[r] = "http" => Top(entry[r]) = 43)
      BY Tops
    <3>2. CASE l = "b.ratelimit"
      BY <3>1, <3>2, Places
    <3>3. CASE l \in RouterLimiters
      <4>1. entry[r] = "http"
        BY <3>3 DEF RouterLimiters
      <4>2. PICK q \in 24..26 : Chain[q] = l
        BY <3>3, Places
      <4> QED
        BY <3>1, <4>1, <4>2
    <3> QED
      BY <2>1, <3>2, <3>3 DEF Limiters
  <2>3. PICK q \in 6..26 : Chain[q] = l /\ q <= Top(entry[r])
    BY <2>2
  <2>4. q \in Crossed(r)
    BY <1>3, <2>3 DEF Crossed, Enabled
  <2> QED
    BY <1>1, <1>4, <2>1, <2>3, <2>4 DEF OnWay
<1>9. TypeOK'
  BY <1>1 DEF TypeOK
<1>10. Sound(r)'
  <2>1. \A p : Enabled(p)' <=> Enabled(p)
    BY <1>1 DEF Enabled
  <2>2. Crossed(r)' = Crossed(r)
    BY <1>1, <2>1 DEF Crossed
  <2>3. OnWay(r)'
    BY <1>1, <1>2, <1>4, <2>1, <2>2 DEF OnWay
  <2>4. Brings(r)'
    BY <1>1, <1>2, <1>4 DEF Brings
  <2>5. Outcome(r)'
    <3>1. status[r] = "none"
      BY <1>1, <1>4 DEF OnWay
    <3> QED
      BY <1>1, <1>2, <1>3, <1>5, <1>6, <1>7, <1>8, <3>1 DEF Outcome
  <2> QED
    BY <2>3, <2>4, <2>5 DEF Sound
<1>11. \A s \in Requests \ {r} : Untouched(s)
  BY <1>1 DEF TypeOK, Untouched
<1> QED
  BY <1>1, <1>9, <1>10, <1>11, OneAtATime

\* A backend answers only requests that were let through to it.
LEMMA AnswerIndInv ==
  ASSUME IndInv, NEW r \in Requests, Answer(r)
  PROVE  IndInv'
<1> USE DEF IndInv
<1>1. PICK u \in {"ok", "failed"} : Refuse(r, u)
  BY DEF Answer
<1>2. /\ phase[r] = "calling"
      /\ UNCHANGED <<conf, entry, faults, spent, called, tokens, breaker, ticks>>
  BY DEF Answer
<1>3. phase'[r] = "out" /\ status'[r] = u /\ pos'[r] = pos[r]
  BY <1>1 DEF Refuse, TypeOK
<1>4. called[r] # "none"
  BY <1>2 DEF Sound, OnWay
<1>5. ~(entry[r] = "http" /\ faults[r] \cap AuthLayers # {}) /\ entry[r] # "preflight"
  BY <1>4 DEF Sound, Outcome
<1>6. Sound(r)'
  BY <1>2, <1>3, <1>5, RefuseSound
<1>7. TypeOK'
  BY <1>1, <1>2 DEF Refuse, TypeOK
<1>8. \A s \in Requests \ {r} : Untouched(s)
  BY <1>1, <1>2 DEF Refuse, TypeOK, Untouched
<1> QED
  BY <1>2, <1>6, <1>7, <1>8, OneAtATime

\* What the breaker counts stays within its threshold.
LEMMA RecordedType ==
  ASSUME TypeOK, NEW u
  PROVE  Recorded(u) \in [open: BOOLEAN, errors: 0..MaxErrors]
<1>1. breaker.open \in BOOLEAN /\ breaker.errors \in 0..MaxErrors
  BY DEF TypeOK
<1>2. CASE breaker.open
  BY <1>2 DEF Recorded, TypeOK
<1>3. CASE ~breaker.open
  <2>1. MaxErrors \in Nat \ {0}
    BY PipelineAssumption
  <2>2. breaker.errors + 1 < MaxErrors => breaker.errors + 1 \in 0..MaxErrors
    BY <1>1, <2>1
  <2> QED
    BY <1>3, <2>1, <2>2 DEF Recorded
<1> QED
  BY <1>2, <1>3

\* An answer on its way out changes no more of its request than its position
\* and, where a response gate finds a fault, an "ok" into "invalid".
LEMMA UnwindIndInv ==
  ASSUME IndInv, NEW r \in Requests, Unwind(r)
  PROVE  IndInv'
<1> USE DEF IndInv
<1> DEFINE q == Above(pos[r], entry[r])
           leaves == q = Top(entry[r]) + 1
           l == IF leaves THEN "client" ELSE Chain[q]
           u == IF l \in ResponseGates /\ l \in faults[r] /\ status[r] = "ok"
                THEN "invalid" ELSE status[r]
<1>1. /\ phase[r] = "out"
      /\ pos' = [pos EXCEPT ![r] = q]
      /\ phase' = [phase EXCEPT ![r] = IF leaves THEN "done" ELSE "out"]
      /\ status' = [status EXCEPT ![r] = u]
      /\ breaker' = IF l = "cb" THEN Recorded(status[r]) ELSE breaker
      /\ UNCHANGED <<conf, entry, faults, spent, called, tokens, ticks>>
  BY DEF Unwind, TypeOK
<1>2. Brings(r) /\ Outcome(r)
  BY DEF Sound
<1>3. q \in 0..44 /\ q <= Top(entry[r]) + 1
  <2>1. pos[r] \in Nat /\ pos[r] <= Top(entry[r]) /\ Top(entry[r]) \in {23, 43}
    BY <1>1, <1>2, Tops DEF Brings, TypeOK
  <2>2. pos[r] \in 0..43
    BY <2>1
  <2>3. q \in (pos[r] + 1)..(Top(entry[r]) + 1)
    BY <2>1, <2>2, AboveIsUp
  <2> QED
    BY <2>1, <2>3
<1>4. /\ u \in {"none", "ok", "denied", "limited", "broken", "failed", "invalid"}
      /\ u # status[r] => status[r] = "ok" /\ u = "invalid" /\ faults[r] \cap ResponseGates # {}
  BY DEF TypeOK
<1> HIDE DEF u, l
<1>5. TypeOK'
  <2>1. breaker' \in [open: BOOLEAN, errors: 0..MaxErrors]
    BY <1>1, RecordedType DEF TypeOK
  <2>2. pos' \in [Requests -> 0..(Len(Chain) + 1)]
    BY <1>1, <1>3, Tops DEF TypeOK
  <2>3. /\ phase' \in [Requests -> {"idle", "in", "calling", "out", "done"}]
        /\ status' \in [Requests -> {"none", "ok", "denied", "limited", "broken",
                                     "failed", "invalid"}]
    BY <1>1, <1>4 DEF TypeOK
  <2> QED
    BY <1>1, <2>1, <2>2, <2>3 DEF TypeOK
<1>6. /\ pos'[r] = q /\ phase'[r] = (IF leaves THEN "done" ELSE "out") /\ status'[r] = u
  BY <1>1 DEF TypeOK
<1>7. phase'[r] = "out" => q <= Top(entry[r])
  <2>1. Top(entry[r]) \in Nat
    BY Tops
  <2> QED
    BY <1>3, <1>6, <2>1
<1> HIDE DEF q, leaves
<1>8. Sound(r)'
  <2>1. OnWay(r)'
    BY <1>6 DEF OnWay
  <2>2. Brings(r)'
    BY <1>1, <1>2, <1>6, <1>7 DEF Brings
  <2>3. Outcome(r)'
    BY <1>1, <1>2, <1>4, <1>6 DEF Outcome, Brings
  <2> QED
    BY <2>1, <2>2, <2>3 DEF Sound
<1>9. \A s \in Requests \ {r} : Untouched(s)
  BY <1>1 DEF TypeOK, Untouched
<1> QED
  BY <1>1, <1>5, <1>8, <1>9, OneAtATime

\* A request that leaves takes everything of its own with it.
LEMMA LeaveIndInv ==
  ASSUME IndInv, NEW r \in Requests, Leave(r)
  PROVE  IndInv'
<1> USE DEF IndInv
<1>1. TypeOK'
  BY Tops DEF Leave, TypeOK
<1>2. Sound(r)'
  BY DEF Leave, TypeOK, Sound, OnWay, Brings, Outcome
<1>3. \A s \in Requests \ {r} : Untouched(s)
  BY DEF Leave, TypeOK, Untouched
<1> QED
  BY <1>1, <1>2, <1>3, OneAtATime DEF Leave

\* Every step of the gateway, of a client, of a backend or of the clock keeps the
\* invariant.
LEMMA NextIndInv == IndInv /\ [Next]_vars => IndInv'
<1> SUFFICES ASSUME IndInv, [Next]_vars PROVE IndInv'
  OBVIOUS
<1>1. ASSUME NEW r \in Requests, GatewayStep(r) PROVE IndInv'
  BY <1>1, LayerIndInv, LimitIndInv, CallIndInv, UnwindIndInv DEF GatewayStep
<1>2. ASSUME NEW r \in Requests, Arrive(r) \/ Answer(r) \/ Leave(r) PROVE IndInv'
  BY <1>2, ArriveIndInv, AnswerIndInv, LeaveIndInv
<1>3. ASSUME UNCHANGED reqVars, conf' = conf, tokens' \in [Limiters -> 0..Burst],
             breaker' \in [open: BOOLEAN, errors: 0..MaxErrors], ticks' \in 0..MaxTicks
      PROVE  IndInv'
  <2>1. TypeOK'
    BY <1>3 DEF IndInv, TypeOK, reqVars
  <2>2. ASSUME NEW s \in Requests PROVE Sound(s)'
    BY <1>3, Frame DEF IndInv, reqVars
  <2> QED
    BY <2>1, <2>2 DEF IndInv
<1>4. CASE Refill
  <2>1. tokens' \in [Limiters -> 0..Burst] /\ ticks' \in 0..MaxTicks
    BY <1>4, PipelineAssumption DEF Refill, IndInv, TypeOK
  <2>2. UNCHANGED reqVars /\ conf' = conf /\ breaker' = breaker
    BY <1>4 DEF Refill
  <2> QED
    BY <1>3, <2>1, <2>2 DEF IndInv, TypeOK
<1>5. CASE BreakerTimeout
  <2>1. ticks' \in 0..MaxTicks
    BY <1>5, PipelineAssumption DEF BreakerTimeout, IndInv, TypeOK
  <2>2. breaker' \in [open: BOOLEAN, errors: 0..MaxErrors]
    BY <1>5, PipelineAssumption DEF BreakerTimeout
  <2>3. UNCHANGED reqVars /\ conf' = conf /\ tokens' = tokens
    BY <1>5 DEF BreakerTimeout
  <2> QED
    BY <1>3, <2>1, <2>2, <2>3 DEF IndInv, TypeOK
<1>6. CASE UNCHANGED vars
  BY <1>3, <1>6 DEF vars, reqVars, IndInv, TypeOK
<1> QED
  BY <1>1, <1>2, <1>4, <1>5, <1>6 DEF Next

-----------------------------------------------------------------------------
(* Theorems *)

\* The invariant is inductive: it holds in every reachable state.
THEOREM Inductive == Spec => []IndInv
BY InitIndInv, NextIndInv, PTL DEF Spec

\* Every piece of the pipeline's state keeps to its values: no limiter is
\* overdrawn, no answer leaves its chain.
THEOREM TypeCorrect == Spec => []TypeOK
<1>1. IndInv => TypeOK
  BY DEF IndInv
<1> QED
  BY <1>1, Inductive, PTL

\* On any endpoint, among any number of concurrent requests, one that an
\* enabled authentication layer turns down cost no token and reached no backend
\* (handler_factory.go:46-59).
THEOREM RefusalIsFree == Spec => []AuthBeforeCost
<1>1. IndInv => AuthBeforeCost
  BY DEF IndInv, Sound, Outcome, AuthBeforeCost
<1> QED
  BY <1>1, Inductive, PTL

\* On any endpoint a backend is called only for requests that paid every enabled
\* limiter on their way (handler_factory.go:47-51, backend_factory.go:85).
THEOREM EveryCallIsPaid == Spec => []CallsArePaid
<1>1. IndInv => CallsArePaid
  BY DEF IndInv, Sound, Outcome, CallsArePaid
<1> QED
  BY <1>1, Inductive, PTL

\* A request turned down by the open breaker, whoever opened it, takes nothing
\* from the backend's budget (backend_factory.go:85-86).
THEOREM BreakerIsOutside == Spec => []BrokenSpendsNothing
<1>1. IndInv => BrokenSpendsNothing
  BY DEF IndInv, Sound, Outcome, BrokenSpendsNothing
<1> QED
  BY <1>1, Inductive, PTL

\* On any endpoint with CORS, preflights are let through without credentials
\* and for free (executor.go:236-239, 332-337).
THEOREM PreflightsAreFree == Spec => []PreflightPasses
<1>1. IndInv => PreflightPasses
  BY DEF IndInv, Sound, Outcome, PreflightPasses
<1> QED
  BY <1>1, Inductive, PTL
==============================================================================
