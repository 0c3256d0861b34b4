------------------------- MODULE BackendClientProofs -------------------------
(***************************************************************************)
(* Proofs about BackendClient, for every set of backends, every set of        *)
(* concurrent calls and every set of profiles.                               *)
(***************************************************************************)
EXTENDS BackendClient, SequenceTheorems, TLAPS

Layers == Options \cup {"client", "tls", "otel", "opencensus"}

\* Executors are sequences of layers; nobody writes to the default transport;
\* and what a call holds at each of its steps.
ExecInv == exec \in [Backends -> Seq(Layers)]

SharedInv == transport[Shared] = NoCert

CallInv ==
  \A c \in Calls :
    /\ call[c].step # "idle" =>
         call[c].backend \in Backends /\ exec[call[c].backend] # <<>>
    /\ call[c].step \in {"clone", "config"} => UsesTLS(call[c].backend)
    /\ call[c].step = "config" => call[c].via = c
    /\ call[c].step = "send" =>
         IF UsesTLS(call[c].backend)
         THEN call[c].via = c /\ transport[c] = call[c].backend
         ELSE call[c].via = Shared
    /\ call[c].step # "sent" => sent[c] = "nothing"

IndInv == TypeOK /\ ExecInv /\ SharedInv /\ CallInv /\ OwnCertificate

\* An executor, once built, is the one of its backend's configuration.
ExecBuilt == \A b \in Backends : exec[b] = <<>> \/ exec[b] = requestExecutor(cfg[b])

\* What AllLayersStacked says of the backends that do not use client
\* credentials: none of the configured layers is lost (backend_factory.go:33-92).
StackedWithoutOAuth2 ==
  \A b \in Backends : exec[b] # <<>> /\ "oauth2" \notin cfg[b].options =>
    cfg[b].options \cup (IF cfg[b].tls = "valid" THEN {"tls"} ELSE {})
      \subseteq LayersOf(exec[b])

-----------------------------------------------------------------------------
(* The layers of an executor *)

\* Appending a layer adds it to the set of layers.
LEMMA LayersOfAppend ==
  ASSUME NEW s \in Seq(Layers), NEW l \in Layers
  PROVE  /\ Append(s, l) \in Seq(Layers)
         /\ LayersOf(Append(s, l)) = LayersOf(s) \cup {l}
<1>1. /\ Append(s, l) \in Seq(Layers) /\ Len(s) \in Nat
      /\ Len(Append(s, l)) = Len(s) + 1
      /\ \A i \in 1..Len(s) : Append(s, l)[i] = s[i]
      /\ Append(s, l)[Len(s) + 1] = l
  BY AppendProperties, LenProperties
<1>2. 1..(Len(s) + 1) = 1..Len(s) \cup {Len(s) + 1}
  BY <1>1
<1> QED
  BY <1>1, <1>2 DEF LayersOf

\* A wrapper adds its layer exactly when the backend configures it.
LEMMA LayersOfWrap ==
  ASSUME NEW p, NEW name \in Layers, NEW s \in Seq(Layers)
  PROVE  /\ Wrap(p, name, s) \in Seq(Layers)
         /\ LayersOf(Wrap(p, name, s)) =
              LayersOf(s) \cup ({name} \cap p.options)
BY LayersOfAppend DEF Wrap

\* What newRequestExecutorFactory stacks, as a set: without client credentials
\* every configured layer, with them only those added after they were.
LEMMA ExecutorLayers ==
  ASSUME NEW p \in [tls: TLSKinds, options: SUBSET Options]
  PROVE  /\ requestExecutor(p) \in Seq(Layers)
         /\ LayersOf(requestExecutor(p)) =
              {"otel", "opencensus"} \cup
              IF "oauth2" \in p.options
              THEN p.options \cap {"oauth2", "httpcache", "gcpauth", "awssigv4", "plugin"}
              ELSE {"client"} \cup p.options
                     \cup (IF p.tls = "valid" THEN {"tls"} ELSE {})
<1> DEFINE f0 == <<"client">>
           f1 == WithBackendTLS(p, f0)
           f2 == Wrap(p, "ntlm", Wrap(p, "noredirect", f1))
           o2 == OAuth2(p, f2)
           f3 == Wrap(p, "httpcache", o2)
           f4 == Append(Append(f3, "otel"), "opencensus")
           f5 == Wrap(p, "plugin", Wrap(p, "awssigv4", Wrap(p, "gcpauth", f4)))
           tls == IF p.tls = "valid" THEN {"tls"} ELSE {}
<1> "client" \in Layers /\ "tls" \in Layers /\ "otel" \in Layers
    /\ "opencensus" \in Layers /\ Options \subseteq Layers /\ p.options \subseteq Options
  BY DEF Layers
<1> "noredirect" \in Options /\ "ntlm" \in Options /\ "oauth2" \in Options
    /\ "httpcache" \in Options /\ "gcpauth" \in Options /\ "awssigv4" \in Options
    /\ "plugin" \in Options
  BY DEF Options
<1>0. \A l \in Layers : <<l>> \in Seq(Layers) /\ LayersOf(<<l>>) = {l}
  BY DEF LayersOf
<1>1. f1 \in Seq(Layers) /\ LayersOf(f1) = {"client"} \cup tls
  <2>1. f0 \in Seq(Layers) /\ LayersOf(f0) = {"client"}
    BY <1>0
  <2> HIDE DEF f0
  <2>2. /\ Append(f0, "tls") \in Seq(Layers)
        /\ LayersOf(Append(f0, "tls")) = {"client"} \cup {"tls"}
    BY <2>1, LayersOfAppend
  <2>3. f1 = IF p.tls = "valid" THEN Append(f0, "tls") ELSE f0
    BY DEF WithBackendTLS, parseOK
  <2> QED
    BY <2>1, <2>2, <2>3
<1>2. /\ f2 \in Seq(Layers)
      /\ LayersOf(f2) = {"client"} \cup tls \cup ({"noredirect", "ntlm"} \cap p.options)
  <2> HIDE DEF f1
  <2> DEFINE g == Wrap(p, "noredirect", f1)
  <2>1. g \in Seq(Layers) /\ LayersOf(g) = LayersOf(f1) \cup ({"noredirect"} \cap p.options)
    BY <1>1, LayersOfWrap
  <2> HIDE DEF g
  <2>2. /\ Wrap(p, "ntlm", g) \in Seq(Layers)
        /\ LayersOf(Wrap(p, "ntlm", g)) = LayersOf(g) \cup ({"ntlm"} \cap p.options)
    BY <2>1, LayersOfWrap
  <2> QED
    BY <1>1, <2>1, <2>2 DEF g
<1>3. /\ o2 \in Seq(Layers)
      /\ LayersOf(o2) = IF "oauth2" \in p.options THEN {"oauth2"} ELSE LayersOf(f2)
  <2> HIDE DEF f2
  <2> QED
    BY <1>0, <1>2 DEF OAuth2
<1>4. /\ f3 \in Seq(Layers)
      /\ LayersOf(f3) = LayersOf(o2) \cup ({"httpcache"} \cap p.options)
  <2> HIDE DEF o2
  <2> QED
    BY <1>3, LayersOfWrap
<1>5. f4 \in Seq(Layers) /\ LayersOf(f4) = LayersOf(f3) \cup {"otel", "opencensus"}
  <2> HIDE DEF f3
  <2> DEFINE g == Append(f3, "otel")
  <2>1. g \in Seq(Layers) /\ LayersOf(g) = LayersOf(f3) \cup {"otel"}
    BY <1>4, LayersOfAppend
  <2> HIDE DEF g
  <2>2. /\ Append(g, "opencensus") \in Seq(Layers)
        /\ LayersOf(Append(g, "opencensus")) = LayersOf(g) \cup {"opencensus"}
    BY <2>1, LayersOfAppend
  <2> QED
    BY <2>1, <2>2 DEF g
<1>6. /\ f5 \in Seq(Layers)
      /\ LayersOf(f5) = LayersOf(f4) \cup ({"gcpauth", "awssigv4", "plugin"} \cap p.options)
  <2> HIDE DEF f4
  <2> DEFINE g == Wrap(p, "gcpauth", f4)
             h == Wrap(p, "awssigv4", g)
  <2>1. g \in Seq(Layers) /\ LayersOf(g) = LayersOf(f4) \cup ({"gcpauth"} \cap p.options)
    BY <1>5, LayersOfWrap
  <2> HIDE DEF g
  <2>2. h \in Seq(Layers) /\ LayersOf(h) = LayersOf(g) \cup ({"awssigv4"} \cap p.options)
    BY <2>1, LayersOfWrap
  <2> HIDE DEF h
  <2>3. /\ Wrap(p, "plugin", h) \in Seq(Layers)
        /\ LayersOf(Wrap(p, "plugin", h)) = LayersOf(h) \cup ({"plugin"} \cap p.options)
    BY <2>2, LayersOfWrap
  <2> QED
    BY <2>1, <2>2, <2>3 DEF g, h
<1>7. requestExecutor(p) = f5
  BY DEF requestExecutor
<1> HIDE DEF f1, f2, o2, f3, f4, f5
<1>8. "oauth2" \notin p.options =>
        p.options = p.options \cap {"noredirect", "ntlm", "httpcache", "gcpauth",
                                    "awssigv4", "plugin"}
  BY DEF Options
<1> QED
  BY <1>1, <1>2, <1>3, <1>4, <1>5, <1>6, <1>7, <1>8

-----------------------------------------------------------------------------
(* The inductive invariant *)

\* It holds before any executor is built.
LEMMA InitIndInv == Init => IndInv
<1> SUFFICES ASSUME Init PROVE IndInv
  OBVIOUS
<1> USE DEF Init, Idle, Transports, Shared, NoCert
<1>1. exec \in [Backends -> Seq(Layers)] /\ \A b \in Backends : LayersOf(exec[b]) = {}
  BY EmptySeq DEF LayersOf
<1>2. TypeOK
  BY <1>1 DEF TypeOK
<1> QED
  BY <1>1, <1>2 DEF IndInv, ExecInv, SharedInv, CallInv, OwnCertificate

\* A step of one call, or the building of an executor, preserves it for every
\* other call.
LEMMA NextIndInv == IndInv /\ [Next]_vars => IndInv'
<1> SUFFICES ASSUME IndInv, [Next]_vars PROVE IndInv'
  OBVIOUS
<1> USE CallsAssumption DEF IndInv, TypeOK, ExecInv, SharedInv, CallInv,
        OwnCertificate, Transports, UsesTLS
<1>1. ASSUME NEW b \in Backends, BuildBackend(b) PROVE IndInv'
  <2> DEFINE e == requestExecutor(cfg[b])
  <2>1. e \in Seq(Layers) /\ LayersOf(e) \subseteq Layers
    BY ExecutorLayers, ProfilesAssumption DEF Layers, Options
  <2> HIDE DEF e
  <2>2. /\ exec[b] = <<>> /\ exec' = [exec EXCEPT ![b] = e]
        /\ UNCHANGED <<cfg, transport, call, sent>>
    BY <1>1 DEF BuildBackend, e
  <2>3. TypeOK' /\ ExecInv' /\ SharedInv'
    BY <2>1, <2>2 DEF Layers
  <2>4. CallInv' /\ OwnCertificate'
    BY <2>2
  <2> QED
    BY <2>3, <2>4
<1>2. ASSUME NEW c \in Calls, NEW b \in Backends, Begin(c, b) PROVE IndInv'
  BY <1>2 DEF Begin, BaseTransport
<1>3. ASSUME NEW c \in Calls, cloneHTTPTransport(c) PROVE IndInv'
  <2>1. /\ call[c].step = "clone"
        /\ transport' \in [Transports -> Backends \cup {NoCert}]
        /\ \A t \in Transports \ {c} : transport'[t] = transport[t]
        /\ UNCHANGED <<cfg, exec, sent>>
    BY <1>3 DEF cloneHTTPTransport
  <2>2. /\ call'[c].step = "config" /\ call'[c].via = c
        /\ call'[c].backend = call[c].backend
        /\ \A d \in Calls \ {c} : call'[d] = call[d]
        /\ call' \in [Calls -> [step: {"idle", "clone", "config", "send", "sent"},
                               backend: Backends \cup {NoCert}, via: Transports]]
    BY <1>3 DEF cloneHTTPTransport
  <2>3. TypeOK' /\ ExecInv' /\ SharedInv'
    BY <2>1, <2>2
  <2>4. OwnCertificate'
    BY <2>1, <2>2
  <2>5. CallInv'
    <3> SUFFICES ASSUME NEW d \in Calls PROVE CallInv!(d)'
      BY DEF CallInv
    <3>1. CASE d = c
      BY <2>1, <2>2, <3>1
    <3>2. CASE d # c
      BY <2>1, <2>2, <3>2
    <3> QED
      BY <3>1, <3>2
  <2> QED
    BY <2>3, <2>4, <2>5
<1>4. ASSUME NEW c \in Calls, SetTLSConfig(c) PROVE IndInv'
  BY <1>4 DEF SetTLSConfig
<1>5. ASSUME NEW c \in Calls, Send(c) PROVE IndInv'
  BY <1>5 DEF Send
<1>6. ASSUME NEW c \in Calls, Finish(c) PROVE IndInv'
  BY <1>6 DEF Finish, Idle
<1>7. CASE UNCHANGED vars
  BY <1>7 DEF vars
<1> QED
  BY <1>1, <1>2, <1>3, <1>4, <1>5, <1>6, <1>7 DEF Next

\* The invariant of the transports holds throughout (backend_client_tls.go:39-75).
THEOREM Inductive == Spec => []IndInv
BY InitIndInv, NextIndInv, PTL DEF Spec

\* Every piece of the client's state keeps its type.
THEOREM TypeCorrect == Spec => []TypeOK
BY Inductive, PTL DEF IndInv

\* No call is ever sent with the certificate of another backend
\* (backend_client_tls.go:48-58).
THEOREM CallsPresentOwnCertificate == Spec => []OwnCertificate
BY Inductive, PTL DEF IndInv

\* The layers of every executor are exactly those ExecutorLayers computes, so
\* AllLayersStacked, which fails with client credentials, holds of every
\* backend without them (backend_factory.go:33-92).
THEOREM OnlyOAuth2DropsLayers == Spec => []StackedWithoutOAuth2
<1>1. Init => ExecBuilt
  BY DEF Init, ExecBuilt
<1>2. IndInv /\ ExecBuilt /\ [Next]_vars => ExecBuilt'
  <2> SUFFICES ASSUME IndInv, ExecBuilt, [Next]_vars PROVE ExecBuilt'
    OBVIOUS
  <2>1. ASSUME NEW b \in Backends, BuildBackend(b) PROVE ExecBuilt'
    BY <2>1 DEF BuildBackend, ExecBuilt, IndInv, ExecInv
  <2>2. CASE UNCHANGED <<cfg, exec>>
    BY <2>2 DEF ExecBuilt
  <2> QED
    BY <2>1, <2>2 DEF Next, vars, Begin, cloneHTTPTransport, SetTLSConfig, Send, Finish
<1>3. IndInv /\ ExecBuilt => StackedWithoutOAuth2
  <2> SUFFICES ASSUME IndInv, ExecBuilt, NEW b \in Backends, exec[b] # <<>>,
                      "oauth2" \notin cfg[b].options
               PROVE  cfg[b].options \cup (IF cfg[b].tls = "valid" THEN {"tls"} ELSE {})
                        \subseteq LayersOf(exec[b])
    BY DEF StackedWithoutOAuth2
  <2>1. cfg[b] \in [tls: TLSKinds, options: SUBSET Options]
    BY ProfilesAssumption DEF IndInv, TypeOK
  <2>2. exec[b] = requestExecutor(cfg[b])
    BY DEF ExecBuilt
  <2> QED
    BY <2>1, <2>2, ExecutorLayers
<1> QED
  BY <1>1, <1>2, <1>3, Inductive, PTL DEF Spec
=============================================================================
