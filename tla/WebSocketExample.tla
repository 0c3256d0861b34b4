-------------------------- MODULE WebSocketExample --------------------------
(***************************************************************************)
(* The WebSocket stack of examples/websocket: the mock backend               *)
(* (mock-backend/main.go), the smoke clients (smoke/main.go) and the gateway   *)
(* between them.  The clients of the chat endpoint share one connection to     *)
(* the backend, on which the gateway shakes hands first and then wraps every   *)
(* message in an envelope; a client of the other two endpoints has a backend   *)
(* connection of its own that copies frames.                                  *)
(*                                                                         *)
(* The gateway's side is the pucora-websocket library, external here, with     *)
(* the settings of examples/websocket/pucora.json, connect and disconnect      *)
(* events included.                                                          *)
(***************************************************************************)
EXTENDS Naturals, Sequences, SequencesExt

CONSTANTS Clients,   \* smoke clients that run at the same time
          Plans,     \* command lines of a smoke client
          MaxDrops   \* bound: backend connections lost

ASSUME WebSocketAssumption ==
  /\ MaxDrops \in Nat
  /\ Clients \cap {"shared", "gateway", "backend", "nobody"} = {}
  /\ Plans \subseteq [url: {"echo", "secure", "chat"}, body: {"text", "blank"},
                      expect: {"message", "exact", "prefix"},
                      header: {"none", "token", "malformed"}]

VARIABLES
  plan,     \* the command line of each client
  client,   \* how far each client is; "ok", "failed", "usage" are its exit codes
  expired,  \* the clients whose timeout fired
  got,      \* the frame each client read last
  inbox,    \* frames on their way from the gateway to each client
  stack,    \* the containers that are up: 0, 1 (the backend), 2 (and the gateway)
  queue,    \* envelopes the gateway holds for the shared connection
  gw,       \* the gateway's end of each backend connection
  handler,  \* the backend's goroutine for each connection
  up, down, \* frames in each connection, towards the backend and back
  drops

clientVars == <<client, expired, got>>
connVars == <<gw, handler, up, down>>
vars == <<plan, client, expired, got, inbox, stack, queue, gw, handler, up,
          down, drops>>

Conns == Clients \cup {"shared"}

Chats(c) == plan[c].url = "chat"

Ended(c) == client[c] \in {"ok", "failed", "usage"}

\* A frame: whose session it belongs to, what it carries, and whether the
\* backend put "echo:" before that.  The body of an event is blank.
Frame(c, body, echo) == [session |-> c, body |-> body, echo |-> echo]

Handshake == Frame("gateway", "starting", FALSE)
OK == Frame("backend", "OK", FALSE)
None == Frame("nobody", "blank", FALSE)

Event(c) == Frame(c, "blank", FALSE)
Message(c) == Frame(c, plan[c].body, FALSE)

Init ==
  /\ plan \in [Clients -> Plans]
  /\ client = [c \in Clients |-> "start"]
  /\ expired = {} /\ got = [c \in Clients |-> None]
  /\ inbox = [c \in Clients |-> <<>>]
  /\ stack = 0 /\ queue = <<>> /\ drops = 0
  /\ gw = [k \in Conns |-> "none"] /\ handler = [k \in Conns |-> "none"]
  /\ up = [k \in Conns |-> <<>>] /\ down = [k \in Conns |-> <<>>]

-----------------------------------------------------------------------------
(* Containers: the gateway is started once the backend's health check passes *)

ServiceStarts ==
  /\ stack < 2
  /\ stack' = stack + 1
  /\ UNCHANGED <<plan, clientVars, inbox, queue, connVars, drops>>

-----------------------------------------------------------------------------
(* Connections *)

\* The backend accepts the upgrade: its handler for /ws waits for the
\* handshake, the one for /echo copies frames from the start.
Accept(k) ==
  /\ handler' = [handler EXCEPT ![k] = IF k = "shared" THEN "handshake" ELSE "serving"]
  /\ gw' = [gw EXCEPT ![k] = IF k = "shared" THEN "shaking" ELSE "ready"]
  /\ up' = [up EXCEPT ![k] = IF k = "shared" THEN <<Handshake>> ELSE <<>>]
  /\ down' = [down EXCEPT ![k] = <<>>]

\* One side closes, or the network does: the other side's read fails, and the
\* backend's handler returns.
Closed(k) ==
  /\ gw' = [gw EXCEPT ![k] = "closed"]
  /\ handler' = [handler EXCEPT ![k] = IF @ = "none" THEN @ ELSE "ended"]
  /\ up' = [up EXCEPT ![k] = <<>>] /\ down' = [down EXCEPT ![k] = <<>>]

-----------------------------------------------------------------------------
(* JWT: the token that /token hands out, the keys that /jwk/symmetric serves *)

signTestToken == [kid |-> "sim2", key |-> "hs256", iss |-> "example",
                  aud |-> "api", roles |-> {"role_a", "role_b"}]

symmetricJWKEndpoint == {[kid |-> "sim1", alg |-> "A128KW", key |-> "a128"],
                         [kid |-> "sim2", alg |-> "HS256", key |-> "hs256"]}

\* The gateway's validator, as pucora.json configures it.
Validated(t) ==
  /\ \E k \in symmetricJWKEndpoint :
       k.kid = t.kid /\ k.key = t.key /\ k.alg = "HS256"
  /\ t.iss = "example" /\ t.aud = "api"
  /\ t.roles \cap {"role_a", "role_b"} # {}

Admitted(c) ==
  plan[c].url = "secure" => plan[c].header = "token" /\ Validated(signTestToken)

-----------------------------------------------------------------------------
(* A smoke client *)

Exits(c, code) == client' = [client EXCEPT ![c] = code]

\* The flags are parsed, then the gateway is dialled; it tells the backend of a
\* new chat client and opens the backend connection of any other.
Dial(c) ==
  /\ client[c] = "start"
  /\ IF plan[c].header = "malformed"
     THEN Exits(c, "usage") /\ UNCHANGED <<queue, connVars>>
     ELSE IF stack < 2 \/ ~Admitted(c)
     THEN Exits(c, "failed") /\ UNCHANGED <<queue, connVars>>
     ELSE /\ client' = [client EXCEPT ![c] = "dialed"]
          /\ IF Chats(c) THEN queue' = Append(queue, Event(c)) /\ UNCHANGED connVars
                         ELSE Accept(c) /\ UNCHANGED queue
  /\ UNCHANGED <<plan, expired, got, inbox, stack, drops>>

Write(c) ==
  /\ client[c] = "dialed" /\ (Chats(c) \/ gw[c] = "ready")
  /\ client' = [client EXCEPT ![c] = "written"]
  /\ IF Chats(c)
     THEN queue' = Append(queue, Message(c)) /\ UNCHANGED up
     ELSE up' = [up EXCEPT ![c] = Append(@, Message(c))] /\ UNCHANGED queue
  /\ UNCHANGED <<plan, expired, got, inbox, stack, gw, handler, down, drops>>

\* The gateway sees a client go: a disconnect event, or the end of the
\* connection it had opened for it.
Gone(c) ==
  /\ inbox' = [inbox EXCEPT ![c] = <<>>]
  /\ IF Chats(c) THEN queue' = Append(queue, Event(c)) /\ UNCHANGED connVars
                 ELSE Closed(c) /\ UNCHANGED queue

\* -expect, -expect-prefix, or neither.
Expected(c, f) ==
  CASE plan[c].expect = "exact"   -> f.echo /\ f.body = plan[c].body
    [] plan[c].expect = "prefix"  -> f.echo
    [] plan[c].expect = "message" -> ~f.echo /\ f.body = plan[c].body

Read(c) ==
  /\ client[c] = "written" /\ inbox[c] # <<>>
  /\ got' = [got EXCEPT ![c] = Head(inbox[c])]
  /\ Exits(c, IF Expected(c, Head(inbox[c])) THEN "ok" ELSE "failed")
  /\ Gone(c)
  /\ UNCHANGED <<plan, expired, stack, drops>>

\* The gateway closes a client whose own backend connection is lost: its next
\* write or read fails.
Refused(c) ==
  /\ client[c] \in {"dialed", "written"} /\ gw[c] = "closed" /\ inbox[c] = <<>>
  /\ Exits(c, "failed")
  /\ UNCHANGED <<plan, expired, got, inbox, stack, queue, connVars, drops>>

\* The context of the whole exchange has a deadline.
Timeout(c) ==
  /\ client[c] \in {"dialed", "written"}
  /\ Exits(c, "failed")
  /\ expired' = expired \cup {c}
  /\ Gone(c)
  /\ UNCHANGED <<plan, got, stack, drops>>

-----------------------------------------------------------------------------
(* The mock backend *)

multiplexReplyAlways(f) == <<Frame(f.session, f.body, TRUE)>>

\* The reply to an envelope, for the same session; none to a blank one.
multiplexReply(f) ==
  IF f.body = "blank" THEN <<>> ELSE <<Frame(f.session, f.body, TRUE)>>

UnshakenHandler ==
  /\ handler["shared"] = "handshake"
  /\ handler' = [handler EXCEPT !["shared"] = "serving"]
  /\ down' = [down EXCEPT !["shared"] = Append(@, OK)]
  /\ UNCHANGED <<gw, up>>

\* The first frame of a connection must be the handshake.
multiplexHandshake ==
  /\ handler["shared"] = "handshake" /\ up["shared"] # <<>>
  /\ IF Head(up["shared"]) = Handshake
     THEN /\ handler' = [handler EXCEPT !["shared"] = "serving"]
          /\ up' = [up EXCEPT !["shared"] = Tail(@)]
          /\ down' = [down EXCEPT !["shared"] = Append(@, OK)]
          /\ UNCHANGED gw
     ELSE Closed("shared")

multiplexServeReturns ==
  /\ handler["shared"] = "serving" /\ up["shared"] # <<>>
  /\ LET reply == multiplexReply(Head(up["shared"]))
     IN  IF reply = <<>> THEN Closed("shared")
         ELSE /\ down' = [down EXCEPT !["shared"] = @ \o reply]
              /\ up' = [up EXCEPT !["shared"] = Tail(@)]
              /\ UNCHANGED <<gw, handler>>

\* Every further frame is an envelope; the loop goes on when it has no reply.
multiplexServe ==
  /\ handler["shared"] = "serving" /\ up["shared"] # <<>>
  /\ down' = [down EXCEPT !["shared"] = @ \o multiplexReply(Head(up["shared"]))]
  /\ up' = [up EXCEPT !["shared"] = Tail(@)]
  /\ UNCHANGED <<gw, handler>>

directEchoTwice(c) ==
  /\ handler[c] = "serving" /\ up[c] # <<>>
  /\ down' = [down EXCEPT ![c] = @ \o <<Head(up[c]), Head(up[c])>>]
  /\ up' = [up EXCEPT ![c] = Tail(@)]
  /\ UNCHANGED <<gw, handler>>

directEcho(c) ==
  /\ handler[c] = "serving" /\ up[c] # <<>>
  /\ down' = [down EXCEPT ![c] = Append(@, Head(up[c]))]
  /\ up' = [up EXCEPT ![c] = Tail(@)]
  /\ UNCHANGED <<gw, handler>>

Backend ==
  /\ multiplexHandshake \/ multiplexServe \/ \E c \in Clients : directEcho(c)
  /\ UNCHANGED <<plan, clientVars, inbox, stack, queue, drops>>

-----------------------------------------------------------------------------
(* The gateway *)

\* The shared connection is opened, and opened again when it was lost.
HubDials ==
  /\ stack = 2 /\ gw["shared"] \in {"none", "closed"}
  /\ Accept("shared")
  /\ UNCHANGED <<queue, inbox>>

HubReady ==
  /\ gw["shared"] = "shaking" /\ down["shared"] # <<>> /\ Head(down["shared"]) = OK
  /\ gw' = [gw EXCEPT !["shared"] = "ready"]
  /\ down' = [down EXCEPT !["shared"] = Tail(@)]
  /\ UNCHANGED <<queue, inbox, handler, up>>

HubForwards ==
  /\ gw["shared"] = "ready" /\ queue # <<>>
  /\ up' = [up EXCEPT !["shared"] = Append(@, Head(queue))]
  /\ queue' = Tail(queue)
  /\ UNCHANGED <<inbox, gw, handler, down>>

\* Whom a frame of the backend is for: the client of its session, or every
\* client of the endpoint if it names none.
Recipients(f) ==
  {c \in Clients : /\ Chats(c) /\ client[c] \in {"dialed", "written"}
                   /\ f.session \in {c, "nobody"}}

HubDelivers ==
  /\ gw["shared"] = "ready" /\ down["shared"] # <<>>
  /\ LET f == Head(down["shared"])
     IN  inbox' = [c \in Clients |-> IF c \in Recipients(f) THEN Append(inbox[c], f)
                                     ELSE inbox[c]]
  /\ down' = [down EXCEPT !["shared"] = Tail(@)]
  /\ UNCHANGED <<queue, gw, handler, up>>

CopiesBack(c) ==
  /\ gw[c] = "ready" /\ down[c] # <<>>
  /\ inbox' = [inbox EXCEPT ![c] = Append(@, Head(down[c]))]
  /\ down' = [down EXCEPT ![c] = Tail(@)]
  /\ UNCHANGED <<queue, gw, handler, up>>

Gateway ==
  /\ \/ HubDials \/ HubReady \/ HubForwards \/ HubDelivers
     \/ \E c \in Clients : CopiesBack(c)
  /\ UNCHANGED <<plan, clientVars, stack, drops>>

\* A backend connection is lost, with whatever is in it.
Drop(k) ==
  /\ drops < MaxDrops /\ gw[k] \in {"shaking", "ready"}
  /\ drops' = drops + 1
  /\ Closed(k)
  /\ UNCHANGED <<plan, clientVars, inbox, stack, queue>>

-----------------------------------------------------------------------------
Client(c) == Dial(c) \/ Write(c) \/ Read(c) \/ Refused(c)

\* Every client has ended; the services go on waiting.
Idle == (\A c \in Clients : Ended(c)) /\ UNCHANGED vars

Next ==
  \/ ServiceStarts \/ Backend \/ Gateway \/ Idle
  \/ \E c \in Clients : Client(c) \/ Timeout(c)
  \/ \E k \in Conns : Drop(k)

\* Goroutines that can go on do.  Nothing makes a connection drop, and nothing
\* makes a deadline pass: ten seconds may be enough for any exchange.
Spec ==
  /\ Init /\ [][Next]_vars
  /\ WF_vars(ServiceStarts) /\ WF_vars(Gateway) /\ WF_vars(Backend)
  /\ \A c \in Clients : WF_vars(Client(c))

-----------------------------------------------------------------------------
(* Properties *)

Frames == [session: Clients \cup {"gateway", "backend", "nobody"},
           body: {"text", "blank", "starting", "OK"}, echo: BOOLEAN]

\* The values each piece of the state can take; a client is never sent more
\* than the one frame it reads.
TypeOK ==
  /\ plan \in [Clients -> Plans]
  /\ client \in [Clients -> {"start", "dialed", "written", "ok", "failed", "usage"}]
  /\ expired \subseteq Clients /\ got \in [Clients -> Frames]
  /\ inbox \in [Clients -> {<<>>} \cup {<<f>> : f \in Frames}]
  /\ stack \in 0..2 /\ queue \in Seq(Frames) /\ drops \in 0..MaxDrops
  /\ gw \in [Conns -> {"none", "shaking", "ready", "closed"}]
  /\ handler \in [Conns -> {"none", "handshake", "serving", "ended"}]
  /\ up \in [Conns -> Seq(Frames)] /\ down \in [Conns -> Seq(Frames)]

\* A client that reports success has read the answer to its own message: not
\* the one of another client on the shared connection, nor an answer to the
\* event that announced it, which -expect-prefix "echo:" would accept
\* (mock-backend/main.go:202-222, smoke/main.go:55-72).
OwnReply ==
  \A c \in Clients : client[c] = "ok" =>
    got[c] = Frame(c, plan[c].body, Chats(c))

\* While the backend waits for the handshake nothing else is in the shared
\* connection, however often it was lost and with clients already waiting: no
\* envelope is taken for a handshake, no handshake for an envelope
\* (mock-backend/main.go:165-176).
HandshakeHeld ==
  /\ handler["shared"] = "handshake" =>
       up["shared"] = <<Handshake>> /\ down["shared"] = <<>> /\ gw["shared"] # "ready"
  /\ handler["shared"] = "serving" => Handshake \notin Range(up["shared"])

\* A message that is not blank, written by a client that expects what its
\* endpoint answers, gets that client its exit code 0, unless the deadline
\* passed before or a backend connection was lost
\* (mock-backend/main.go:142-150, 177-193, smoke/main.go:43-72).
Served ==
  \A c \in Clients :
    client[c] = "written" /\ plan[c].body = "text"
      /\ (Chats(c) <=> plan[c].expect # "message")
      ~> client[c] = "ok" \/ c \in expired \/ drops > 0
=============================================================================
