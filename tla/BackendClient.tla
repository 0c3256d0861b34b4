---------------------------- MODULE BackendClient ----------------------------
(***************************************************************************)
(* The HTTP client of a backend: which layers newRequestExecutorFactory       *)
(* (backend_factory.go) stacks for a configuration, and how concurrent calls   *)
(* obtain the transport they send with (backend_client_tls.go).  Transports    *)
(* are shared memory: the default one belongs to every backend.               *)
(***************************************************************************)
EXTENDS Naturals, Sequences

CONSTANTS Backends,  \* the backends of a configuration
          Calls,     \* calls that may be in flight at the same time
          Profiles   \* the configurations a backend may have

\* What backend/http/client says: nothing; a value without a usable client_tls
\* object; one that yields no tls.Config; a valid one.
TLSKinds == {"absent", "malformed", "unusable", "valid"}

Options == {"noredirect", "ntlm", "oauth2", "httpcache", "gcpauth",
            "awssigv4", "plugin"}

ASSUME ProfilesAssumption == Profiles \subseteq [tls: TLSKinds, options: SUBSET Options]

Shared == "shared"   \* http.DefaultTransport

NoCert == "none"

ASSUME CallsAssumption == Shared \notin Calls

VARIABLES
  cfg,        \* the configuration of each backend
  exec,       \* the layers of each backend's executor, innermost first
  transport,  \* whose certificate each transport presents
  call,       \* each call: its step, its backend, the transport it holds
  sent        \* the certificate the call was sent with

vars == <<cfg, exec, transport, call, sent>>

\* A transport allocated by a call is known by the call.
Transports == Calls \cup {Shared}

Idle == [step |-> "idle", backend |-> NoCert, via |-> Shared]

Init ==
  /\ cfg \in [Backends -> Profiles]
  /\ exec = [b \in Backends |-> <<>>]
  /\ transport = [t \in Transports |-> NoCert]
  /\ call = [c \in Calls |-> Idle]
  /\ sent = [c \in Calls |-> "nothing"]

-----------------------------------------------------------------------------
\* parseBackendHTTPClientTLS: anything but a client_tls object that decodes is
\* as good as nothing.
parseOK(p) == p.tls \in {"unusable", "valid"}

\* newHTTPClientWithBackendTLS wraps the factory only if a tls.Config results.
WithBackendTLS(p, factory) ==
  IF parseOK(p) /\ p.tls = "valid" THEN Append(factory, "tls") ELSE factory

\* A layer of another package wraps the factory if the backend configures it.
Wrap(p, name, factory) ==
  IF name \in p.options THEN Append(factory, name) ELSE factory

\* The client-credentials client does not take the factory built so far.
OAuth2(p, factory) == IF "oauth2" \in p.options THEN <<"oauth2">> ELSE factory

requestExecutor(p) ==
  LET f1 == WithBackendTLS(p, <<"client">>)
      f2 == Wrap(p, "ntlm", Wrap(p, "noredirect", f1))
      f3 == Wrap(p, "httpcache", OAuth2(p, f2))
      f4 == Append(Append(f3, "otel"), "opencensus")
  IN  Wrap(p, "plugin", Wrap(p, "awssigv4", Wrap(p, "gcpauth", f4)))

LayersOf(s) == {s[i] : i \in 1..Len(s)}

BuildBackend(b) ==
  /\ exec[b] = <<>>
  /\ exec' = [exec EXCEPT ![b] = requestExecutor(cfg[b])]
  /\ UNCHANGED <<cfg, transport, call, sent>>

-----------------------------------------------------------------------------
(* A call, from the client factory to the wire *)

UsesTLS(b) == "tls" \in LayersOf(exec[b])

NilTransport == "nil"

\* What a client that sets no transport of its own uses.
BaseTransport == Shared

\* The factory runs for every call; without the TLS layer its client uses the
\* default transport.
Begin(c, b) ==
  /\ call[c].step = "idle" /\ exec[b] # <<>>
  /\ call' = [call EXCEPT ![c] =
                [step |-> IF UsesTLS(b) THEN "clone" ELSE "send",
                 backend |-> b, via |-> BaseTransport]]
  /\ sent' = [sent EXCEPT ![c] = "nothing"]
  /\ UNCHANGED <<cfg, exec, transport>>

\* cloneHTTPTransport: whatever the base client's transport is, the result is
\* a transport of the call's own, with the settings of the default one.
NotCloned(c) ==
  /\ call[c].step = "clone"
  /\ call' = [call EXCEPT ![c].step = "config"]
  /\ UNCHANGED <<cfg, exec, transport, sent>>

cloneHTTPTransport(c) ==
  /\ call[c].step = "clone"
  /\ transport' = [transport EXCEPT ![c] = transport[Shared]]
  /\ call' = [call EXCEPT ![c] =
                [step |-> "config", backend |-> call[c].backend, via |-> c]]
  /\ UNCHANGED <<cfg, exec, sent>>

\* transport.TLSClientConfig = tlsConfig
SetTLSConfig(c) ==
  /\ call[c].step = "config"
  /\ transport' = [transport EXCEPT ![call[c].via] = call[c].backend]
  /\ call' = [call EXCEPT ![c].step = "send"]
  /\ UNCHANGED <<cfg, exec, sent>>

Send(c) ==
  /\ call[c].step = "send"
  /\ sent' = [sent EXCEPT ![c] = transport[call[c].via]]
  /\ call' = [call EXCEPT ![c].step = "sent"]
  /\ UNCHANGED <<cfg, exec, transport>>

Finish(c) ==
  /\ call[c].step = "sent"
  /\ call' = [call EXCEPT ![c] = Idle]
  /\ sent' = [sent EXCEPT ![c] = "nothing"]
  /\ UNCHANGED <<cfg, exec, transport>>

Next ==
  \/ \E b \in Backends : BuildBackend(b) \/ \E c \in Calls : Begin(c, b)
  \/ \E c \in Calls :
       cloneHTTPTransport(c) \/ SetTLSConfig(c) \/ Send(c) \/ Finish(c)

Spec == Init /\ [][Next]_vars

-----------------------------------------------------------------------------
(* Properties *)

\* The values each piece of the client's state can take.
TypeOK ==
  /\ cfg \in [Backends -> Profiles]
  /\ \A b \in Backends :
       LayersOf(exec[b]) \subseteq Options \cup {"client", "tls", "otel", "opencensus"}
  /\ transport \in [Transports -> Backends \cup {NoCert}]
  /\ call \in [Calls -> [step: {"idle", "clone", "config", "send", "sent"},
                         backend: Backends \cup {NoCert}, via: Transports]]
  /\ sent \in [Calls -> Backends \cup {NoCert, "nothing"}]

\* A call goes out with the certificate of its own backend or with none, never
\* with another's, however the calls interleave: the TLS settings of one
\* backend do not leak through the default transport (backend_client_tls.go:48-58).
OwnCertificate ==
  \A c \in Calls : sent[c] # "nothing" =>
    sent[c] = IF UsesTLS(call[c].backend) THEN call[c].backend ELSE NoCert

\* The comment of backend_factory.go:33: the executor stacks all the layers
\* that its backend configures.
AllLayersStacked ==
  \A b \in Backends : exec[b] # <<>> =>
    cfg[b].options \cup (IF cfg[b].tls = "valid" THEN {"tls"} ELSE {})
      \subseteq LayersOf(exec[b])
=============================================================================
